---------------------------- MODULE Spec2Model ----------------------------
(***************************************************************************)
(* A model of the action protocol engine of autoglm-rs (crate phone_agent):*)
(* the response split of ModelClient::parse_response, the action call      *)
(* parser parse_action / parse_do_action / parse_value, the dispatcher     *)
(* ActionHandler::execute with its handlers, the step state machine        *)
(* PhoneAgent::run / step / reset / execute_step, the coordinate           *)
(* conversion, and the device operations under the lock of DEVICE_FACTORY. *)
(*                                                                         *)
(* Text is a sequence of characters, each character a one-element string;  *)
(* a character outside ASCII is written as its code point ("U+00E9") and   *)
(* occupies utf8_len bytes, so that byte offsets (str::find, slicing) and  *)
(* character positions can differ as they do in Rust.                      *)
(*                                                                         *)
(* Option<T> is a sequence of length 0 (None) or 1 (Some).  A Rust panic   *)
(* (slice out of range, Duration::from_secs_f64 on a negative or           *)
(* non-finite number) is the outcome "Panic": it unwinds through the step  *)
(* and through run.                                                        *)
(***************************************************************************)
EXTENDS Integers, Sequences, FiniteSets, TLC

\* The envelope tags of the legacy response format (parse_response, rule 3) and of
\* the assistant turn the agent writes back.
Tag ==
    [ answer_open |-> <<"<", "a", "n", "s", "w", "e", "r", ">">>,
      answer_close |-> <<"<", "/", "a", "n", "s", "w", "e", "r", ">">>,
      think_open |-> <<"<", "t", "h", "i", "n", "k", ">">>,
      think_close |-> <<"<", "/", "t", "h", "i", "n", "k", ">">> ]

\* The literal prefixes and suffixes parse_action and parse_do_action test for.
Prefix ==
    [ do_open |-> <<"d", "o", "(">>,
      finish_open |-> <<"f", "i", "n", "i", "s", "h", "(">>,
      close |-> <<")">>,
      type |->
          <<"d", "o", "(", "a", "c", "t", "i", "o", "n", "=", "\"", "T", "y", "p", "e", "\"">>,
      type_name |->
          <<"d", "o", "(", "a", "c", "t", "i", "o", "n", "=", "\"", "T", "y", "p", "e", "_",
            "N", "a", "m", "e", "\"">>,
      text_eq |-> <<"t", "e", "x", "t", "=">>,
      quote_paren |-> <<"\"", ")">>,
      finish_message |->
          <<"f", "i", "n", "i", "s", "h", "(", "m", "e", "s", "s", "a", "g", "e", "=">>,
      do_action |-> <<"d", "o", "(", "a", "c", "t", "i", "o", "n", "=">> ]

\* The field names of an action record.
Key ==
    [ metadata |-> <<"_", "m", "e", "t", "a", "d", "a", "t", "a">>,
      action |-> <<"a", "c", "t", "i", "o", "n">>,
      message |-> <<"m", "e", "s", "s", "a", "g", "e">>,
      element |-> <<"e", "l", "e", "m", "e", "n", "t">>,
      text |-> <<"t", "e", "x", "t">>,
      app |-> <<"a", "p", "p">>,
      start |-> <<"s", "t", "a", "r", "t">>,
      end |-> <<"e", "n", "d">>,
      duration |-> <<"d", "u", "r", "a", "t", "i", "o", "n">> ]

\* The two values of the discriminator field _metadata.
Kind ==
    [ do |-> <<"d", "o">>,
      finish |-> <<"f", "i", "n", "i", "s", "h">> ]

\* The action names of the dispatch table of ActionHandler::execute.
Name ==
    [ Launch |-> <<"L", "a", "u", "n", "c", "h">>,
      Tap |-> <<"T", "a", "p">>,
      Type |-> <<"T", "y", "p", "e">>,
      Type_Name |-> <<"T", "y", "p", "e", "_", "N", "a", "m", "e">>,
      Swipe |-> <<"S", "w", "i", "p", "e">>,
      Back |-> <<"B", "a", "c", "k">>,
      Home |-> <<"H", "o", "m", "e">>,
      Double_Tap |-> <<"D", "o", "u", "b", "l", "e", " ", "T", "a", "p">>,
      Long_Press |-> <<"L", "o", "n", "g", " ", "P", "r", "e", "s", "s">>,
      Wait |-> <<"W", "a", "i", "t">>,
      Take_over |-> <<"T", "a", "k", "e", "_", "o", "v", "e", "r">>,
      Note |-> <<"N", "o", "t", "e">>,
      Call_API |-> <<"C", "a", "l", "l", "_", "A", "P", "I">>,
      Interact |-> <<"I", "n", "t", "e", "r", "a", "c", "t">> ]

\* The message texts of the action handler and of the parser.
HandlerMsg ==
    [ ActionFailed |->
          <<"A", "c", "t", "i", "o", "n", " ", "f", "a", "i", "l", "e", "d", ":", " ">>,
      UnknownAction |->
          <<"U", "n", "k", "n", "o", "w", "n", " ", "a", "c", "t", "i", "o", "n", ":", " ">>,
      UnknownActionType |->
          <<"U", "n", "k", "n", "o", "w", "n", " ", "a", "c", "t", "i", "o", "n", " ", "t",
            "y", "p", "e", ":", " ">>,
      NoAppName |->
          <<"N", "o", " ", "a", "p", "p", " ", "n", "a", "m", "e", " ", "s", "p", "e", "c",
            "i", "f", "i", "e", "d">>,
      AppNotFound |->
          <<"A", "p", "p", " ", "n", "o", "t", " ", "f", "o", "u", "n", "d", ":", " ">>,
      NoElement |->
          <<"N", "o", " ", "e", "l", "e", "m", "e", "n", "t", " ", "c", "o", "o", "r", "d",
            "i", "n", "a", "t", "e", "s">>,
      InvalidElement |->
          <<"I", "n", "v", "a", "l", "i", "d", " ", "e", "l", "e", "m", "e", "n", "t", " ",
            "c", "o", "o", "r", "d", "i", "n", "a", "t", "e", "s">>,
      UserCancelled |->
          <<"U", "s", "e", "r", " ", "c", "a", "n", "c", "e", "l", "l", "e", "d", " ", "s",
            "e", "n", "s", "i", "t", "i", "v", "e", " ", "o", "p", "e", "r", "a", "t", "i",
            "o", "n">>,
      MissingStart |->
          <<"M", "i", "s", "s", "i", "n", "g", " ", "s", "t", "a", "r", "t", " ", "c", "o",
            "o", "r", "d", "i", "n", "a", "t", "e", "s">>,
      MissingEnd |->
          <<"M", "i", "s", "s", "i", "n", "g", " ", "e", "n", "d", " ", "c", "o", "o", "r",
            "d", "i", "n", "a", "t", "e", "s">>,
      InvalidSwipe |->
          <<"I", "n", "v", "a", "l", "i", "d", " ", "s", "w", "i", "p", "e", " ", "c", "o",
            "o", "r", "d", "i", "n", "a", "t", "e", "s">>,
      DefaultDuration |-> <<"1", " ", "s", "e", "c", "o", "n", "d", "s">>,
      seconds |-> <<"s", "e", "c", "o", "n", "d", "s">>,
      second |-> <<"s", "e", "c", "o", "n", "d">>,
      UserIntervention |->
          <<"U", "s", "e", "r", " ", "i", "n", "t", "e", "r", "v", "e", "n", "t", "i", "o",
            "n", " ", "r", "e", "q", "u", "i", "r", "e", "d">>,
      UserInteraction |->
          <<"U", "s", "e", "r", " ", "i", "n", "t", "e", "r", "a", "c", "t", "i", "o", "n",
            " ", "r", "e", "q", "u", "i", "r", "e", "d">>,
      FailedToParse |->
          <<"F", "a", "i", "l", "e", "d", " ", "t", "o", " ", "p", "a", "r", "s", "e", " ",
            "a", "c", "t", "i", "o", "n", ":", " ">>,
      InvalidDoFormat |->
          <<"I", "n", "v", "a", "l", "i", "d", " ", "d", "o", "(", ")", " ", "f", "o", "r",
            "m", "a", "t">> ]

\* The message texts of the agent loop.
AgentMsg ==
    [ TaskCompleted |-> <<"T", "a", "s", "k", " ", "c", "o", "m", "p", "l", "e", "t", "e", "d">>,
      MaxStepsReached |->
          <<"M", "a", "x", " ", "s", "t", "e", "p", "s", " ", "r", "e", "a", "c", "h", "e",
            "d">>,
      ModelError |-> <<"M", "o", "d", "e", "l", " ", "e", "r", "r", "o", "r", ":", " ">>,
      TaskRequired |->
          <<"T", "a", "s", "k", " ", "i", "s", " ", "r", "e", "q", "u", "i", "r", "e", "d",
            " ", "f", "o", "r", " ", "t", "h", "e", " ", "f", "i", "r", "s", "t", " ", "s",
            "t", "e", "p">> ]

\* The Display prefixes of the AdbError variants the engine formats into messages.
ErrorFmt ==
    [ CommandFailed |->
          <<"C", "o", "m", "m", "a", "n", "d", " ", "e", "x", "e", "c", "u", "t", "i", "o",
            "n", " ", "f", "a", "i", "l", "e", "d", ":", " ">>,
      Timeout |->
          <<"C", "o", "n", "n", "e", "c", "t", "i", "o", "n", " ", "t", "i", "m", "e", "o",
            "u", "t", ":", " ">> ]

\* The boolean literals parse_value accepts.
BoolLiteral ==
    [ t1 |-> <<"t", "r", "u", "e">>,
      t2 |-> <<"T", "r", "u", "e">>,
      f1 |-> <<"f", "a", "l", "s", "e">>,
      f2 |-> <<"F", "a", "l", "s", "e">> ]

\* The non-numeric words f64 parsing accepts (compared case-insensitively).
FloatWord ==
    [ inf |-> <<"i", "n", "f">>,
      infinity |-> <<"i", "n", "f", "i", "n", "i", "t", "y">>,
      nan |-> <<"n", "a", "n">> ]
\* The complete texts the model collaborator may stream in a step (raw_content once the
\* stream has ended): one per dispatch-table entry and per way the text can be
\* malformed.
Corpus ==
      \* ok do(action="Tap", element=[500, 300])
    [ tap |-> <<"o", "k", " ", "d", "o", "(", "a", "c", "t", "i", "o", "n", "=", "\"", "T",
            "a", "p", "\"", ",", " ", "e", "l", "e", "m", "e", "n", "t", "=", "[", "5", "0",
            "0", ",", " ", "3", "0", "0", "]", ")">>,
      \* do(action="Tap", element=[5, 5], message="pay")
      tap_sensitive |-> <<"d", "o", "(", "a", "c", "t", "i", "o", "n", "=", "\"", "T", "a",
            "p", "\"", ",", " ", "e", "l", "e", "m", "e", "n", "t", "=", "[", "5", ",", " ",
            "5", "]", ",", " ", "m", "e", "s", "s", "a", "g", "e", "=", "\"", "p", "a", "y",
            "\"", ")">>,
      \* do(action="Tap")
      tap_no_element |-> <<"d", "o", "(", "a", "c", "t", "i", "o", "n", "=", "\"", "T", "a",
            "p", "\"", ")">>,
      \* do(action="Tap", element=[5])
      tap_one_coordinate |-> <<"d", "o", "(", "a", "c", "t", "i", "o", "n", "=", "\"", "T",
            "a", "p", "\"", ",", " ", "e", "l", "e", "m", "e", "n", "t", "=", "[", "5", "]",
            ")">>,
      \* do(action="Double Tap", element=[5, 5], message="pay")
      double_tap_sensitive |-> <<"d", "o", "(", "a", "c", "t", "i", "o", "n", "=", "\"", "D",
            "o", "u", "b", "l", "e", " ", "T", "a", "p", "\"", ",", " ", "e", "l", "e", "m",
            "e", "n", "t", "=", "[", "5", ",", " ", "5", "]", ",", " ", "m", "e", "s", "s",
            "a", "g", "e", "=", "\"", "p", "a", "y", "\"", ")">>,
      \* do(action="Long Press", element=[5, 5], message="pay")
      long_press_sensitive |-> <<"d", "o", "(", "a", "c", "t", "i", "o", "n", "=", "\"", "L",
            "o", "n", "g", " ", "P", "r", "e", "s", "s", "\"", ",", " ", "e", "l", "e", "m",
            "e", "n", "t", "=", "[", "5", ",", " ", "5", "]", ",", " ", "m", "e", "s", "s",
            "a", "g", "e", "=", "\"", "p", "a", "y", "\"", ")">>,
      \* do(action="Swipe", start=[1, 5], end=[1, 2])
      swipe |-> <<"d", "o", "(", "a", "c", "t", "i", "o", "n", "=", "\"", "S", "w", "i", "p",
            "e", "\"", ",", " ", "s", "t", "a", "r", "t", "=", "[", "1", ",", " ", "5", "]",
            ",", " ", "e", "n", "d", "=", "[", "1", ",", " ", "2", "]", ")">>,
      \* do(action="Back")
      back |-> <<"d", "o", "(", "a", "c", "t", "i", "o", "n", "=", "\"", "B", "a", "c", "k",
            "\"", ")">>,
      \* do(action="Home")
      home |-> <<"d", "o", "(", "a", "c", "t", "i", "o", "n", "=", "\"", "H", "o", "m", "e",
            "\"", ")">>,
      \* do(action="Launch", app="Maps")
      launch |-> <<"d", "o", "(", "a", "c", "t", "i", "o", "n", "=", "\"", "L", "a", "u", "n",
            "c", "h", "\"", ",", " ", "a", "p", "p", "=", "\"", "M", "a", "p", "s", "\"", ")">>,
      \* do(action="Launch")
      launch_no_app |-> <<"d", "o", "(", "a", "c", "t", "i", "o", "n", "=", "\"", "L", "a",
            "u", "n", "c", "h", "\"", ")">>,
      \* do(action="Type", text="hi")
      type |-> <<"d", "o", "(", "a", "c", "t", "i", "o", "n", "=", "\"", "T", "y", "p", "e",
            "\"", ",", " ", "t", "e", "x", "t", "=", "\"", "h", "i", "\"", ")">>,
      \* do(action="Type", text=
      type_cut |-> <<"d", "o", "(", "a", "c", "t", "i", "o", "n", "=", "\"", "T", "y", "p",
            "e", "\"", ",", " ", "t", "e", "x", "t", "=">>,
      \* do(action="Type", text=U+00E9")
      type_multibyte |-> <<"d", "o", "(", "a", "c", "t", "i", "o", "n", "=", "\"", "T", "y",
            "p", "e", "\"", ",", " ", "t", "e", "x", "t", "=", "U+00E9", "\"", ")">>,
      \* do(action="Wait", duration="2 seconds")
      wait |-> <<"d", "o", "(", "a", "c", "t", "i", "o", "n", "=", "\"", "W", "a", "i", "t",
            "\"", ",", " ", "d", "u", "r", "a", "t", "i", "o", "n", "=", "\"", "2", " ", "s",
            "e", "c", "o", "n", "d", "s", "\"", ")">>,
      \* do(action="Wait", duration="soon")
      wait_unparsed |-> <<"d", "o", "(", "a", "c", "t", "i", "o", "n", "=", "\"", "W", "a",
            "i", "t", "\"", ",", " ", "d", "u", "r", "a", "t", "i", "o", "n", "=", "\"", "s",
            "o", "o", "n", "\"", ")">>,
      \* do(action="Wait", duration="-1 seconds")
      wait_negative |-> <<"d", "o", "(", "a", "c", "t", "i", "o", "n", "=", "\"", "W", "a",
            "i", "t", "\"", ",", " ", "d", "u", "r", "a", "t", "i", "o", "n", "=", "\"", "-",
            "1", " ", "s", "e", "c", "o", "n", "d", "s", "\"", ")">>,
      \* do(action="Wait", duration="inf")
      wait_infinite |-> <<"d", "o", "(", "a", "c", "t", "i", "o", "n", "=", "\"", "W", "a",
            "i", "t", "\"", ",", " ", "d", "u", "r", "a", "t", "i", "o", "n", "=", "\"", "i",
            "n", "f", "\"", ")">>,
      \* do(action="Wait", duration="NaN seconds")
      wait_nan |-> <<"d", "o", "(", "a", "c", "t", "i", "o", "n", "=", "\"", "W", "a", "i",
            "t", "\"", ",", " ", "d", "u", "r", "a", "t", "i", "o", "n", "=", "\"", "N", "a",
            "N", " ", "s", "e", "c", "o", "n", "d", "s", "\"", ")">>,
      \* do(action="Take_over", message="login")
      take_over |-> <<"d", "o", "(", "a", "c", "t", "i", "o", "n", "=", "\"", "T", "a", "k",
            "e", "_", "o", "v", "e", "r", "\"", ",", " ", "m", "e", "s", "s", "a", "g", "e",
            "=", "\"", "l", "o", "g", "i", "n", "\"", ")">>,
      \* do(action="Note")
      note |-> <<"d", "o", "(", "a", "c", "t", "i", "o", "n", "=", "\"", "N", "o", "t", "e",
            "\"", ")">>,
      \* do(action="Interact")
      interact |-> <<"d", "o", "(", "a", "c", "t", "i", "o", "n", "=", "\"", "I", "n", "t",
            "e", "r", "a", "c", "t", "\"", ")">>,
      \* do(action="Fly")
      unknown |-> <<"d", "o", "(", "a", "c", "t", "i", "o", "n", "=", "\"", "F", "l", "y",
            "\"", ")">>,
      \* done finish(message="ok")
      finish |-> <<"d", "o", "n", "e", " ", "f", "i", "n", "i", "s", "h", "(", "m", "e", "s",
            "s", "a", "g", "e", "=", "\"", "o", "k", "\"", ")">>,
      \* do(action=
      unterminated |-> <<"d", "o", "(", "a", "c", "t", "i", "o", "n", "=">>,
      \* do(action=")
      lone_quote |-> <<"d", "o", "(", "a", "c", "t", "i", "o", "n", "=", "\"", ")">>,
      \* hello
      no_marker |-> <<"h", "e", "l", "l", "o">>,
      \* <think>t</think><answer>do(action="Back")</answer>
      answer_envelope |-> <<"<", "t", "h", "i", "n", "k", ">", "t", "<", "/", "t", "h", "i",
            "n", "k", ">", "<", "a", "n", "s", "w", "e", "r", ">", "d", "o", "(", "a", "c",
            "t", "i", "o", "n", "=", "\"", "B", "a", "c", "k", "\"", ")", "<", "/", "a", "n",
            "s", "w", "e", "r", ">">>,
      \* do(action="Tap", _metadata="finish", element=[5, 5], message="pay")
      finish_with_action |-> <<"d", "o", "(", "a", "c", "t", "i", "o", "n", "=", "\"", "T",
            "a", "p", "\"", ",", " ", "_", "m", "e", "t", "a", "d", "a", "t", "a", "=", "\"",
            "f", "i", "n", "i", "s", "h", "\"", ",", " ", "e", "l", "e", "m", "e", "n", "t",
            "=", "[", "5", ",", " ", "5", "]", ",", " ", "m", "e", "s", "s", "a", "g", "e",
            "=", "\"", "p", "a", "y", "\"", ")">> ]

(***************************************************************************)
(* Text primitives (Rust str methods used by the engine).                  *)
(***************************************************************************)

None == <<>>

Some(x) == <<x>>

MinOf(S) == CHOOSE x \in S : \A y \in S : x <= y

MaxOf(S) == CHOOSE x \in S : \A y \in S : y <= x

\* char::is_whitespace, restricted to the white space the texts of the model use.
WhiteSpace == {" ", "\t", "\n", "\r"}

\* The characters of the model that are not ASCII, and the UTF-8 length of a character.
MultiByte == {"U+00E9"}

utf8_len(c) == IF c \in MultiByte THEN 2 ELSE 1

RECURSIVE byte_len(_)
\* str::len: the length of a text in bytes.
byte_len(s) == IF s = <<>> THEN 0 ELSE utf8_len(Head(s)) + byte_len(Tail(s))

\* The character counts k for which the first k characters of s occupy exactly b
\* bytes: empty when b is past the end of s or is not a character boundary, which
\* is when slicing s at byte b panics.
char_boundary(s, b) == {k \in 0..Len(s) : byte_len(SubSeq(s, 1, k)) = b}

\* str::trim
trim(s) ==
    LET keep == {i \in DOMAIN s : s[i] \notin WhiteSpace}
    IN  IF keep = {} THEN <<>> ELSE SubSeq(s, MinOf(keep), MaxOf(keep))

\* str::starts_with
starts_with(s, p) == Len(p) <= Len(s) /\ SubSeq(s, 1, Len(p)) = p

\* str::ends_with
ends_with(s, p) == Len(p) <= Len(s) /\ SubSeq(s, Len(s) - Len(p) + 1, Len(s)) = p

\* The character positions at which p occurs in s.
occurrences(s, p) == {i \in 1..(Len(s) - Len(p) + 1) : SubSeq(s, i, i + Len(p) - 1) = p}

\* str::contains
contains(s, p) == occurrences(s, p) # {}

\* str::find: the position of the first occurrence (0 for None).
find(s, p) == IF occurrences(s, p) = {} THEN 0 ELSE MinOf(occurrences(s, p))

rfind_first(s, p) == find(s, p)

\* str::rfind: the position of the last occurrence (0 for None).
rfind(s, p) == IF occurrences(s, p) = {} THEN 0 ELSE MaxOf(occurrences(s, p))

RECURSIVE replace(_, _, _)
\* str::replace: every non-overlapping occurrence of p, left to right, becomes r.
replace(s, p, r) ==
    IF s = <<>> THEN <<>>
    ELSE IF starts_with(s, p) THEN r \o replace(SubSeq(s, Len(p) + 1, Len(s)), p, r)
    ELSE <<Head(s)>> \o replace(Tail(s), p, r)

\* str::splitn(2, p) of a text that contains p: the parts before and after the
\* first occurrence.
splitn2(s, p) ==
    LET i == find(s, p)
    IN  <<SubSeq(s, 1, i - 1), SubSeq(s, i + Len(p), Len(s))>>

RECURSIVE trim_start_matches(_, _)
\* str::trim_start_matches: strips the prefix p repeatedly.
trim_start_matches(s, p) ==
    IF starts_with(s, p) THEN trim_start_matches(SubSeq(s, Len(p) + 1, Len(s)), p) ELSE s

RECURSIVE trim_end_matches(_, _)
\* str::trim_end_matches: strips the suffix p repeatedly.
trim_end_matches(s, p) ==
    IF ends_with(s, p) THEN trim_end_matches(SubSeq(s, 1, Len(s) - Len(p)), p) ELSE s

\* str::trim_matches with a single character.
trim_matches(s, c) == trim_end_matches(trim_start_matches(s, <<c>>), <<c>>)

\* str::split(','): the pieces between the commas (one piece for a text without one).
RECURSIVE split_comma(_, _, _)
split_comma(s, cur, acc) ==
    IF s = <<>> THEN Append(acc, cur)
    ELSE IF Head(s) = "," THEN split_comma(Tail(s), <<>>, Append(acc, cur))
    ELSE split_comma(Tail(s), Append(cur, Head(s)), acc)

\* char::to_ascii_lowercase for the letters of the float words.
lower(c) ==
    CASE c = "I" -> "i" [] c = "N" -> "n" [] c = "F" -> "f" [] c = "T" -> "t"
      [] c = "Y" -> "y" [] c = "A" -> "a" [] OTHER -> c

lower_text(s) == [i \in DOMAIN s |-> lower(s[i])]

(***************************************************************************)
(* Numbers and JSON values (serde_json::Value).                            *)
(***************************************************************************)

Digit == {"0", "1", "2", "3", "4", "5", "6", "7", "8", "9"}

digit_value(c) ==
    CASE c = "0" -> 0 [] c = "1" -> 1 [] c = "2" -> 2 [] c = "3" -> 3 [] c = "4" -> 4
      [] c = "5" -> 5 [] c = "6" -> 6 [] c = "7" -> 7 [] c = "8" -> 8 [] c = "9" -> 9

RECURSIVE digits_value(_, _)
digits_value(s, acc) ==
    IF s = <<>> THEN acc ELSE digits_value(Tail(s), acc * 10 + digit_value(Head(s)))

all_digits(s) == \A i \in DOMAIN s : s[i] \in Digit

\* str::parse::<i64>: an optional sign and at least one digit.  The texts of the
\* model carry at most nine digits, so the value is always representable here and
\* the overflow error of i64 never arises.
parse_i64(s) ==
    LET signed == s # <<>> /\ Head(s) \in {"+", "-"}
        d == IF signed THEN Tail(s) ELSE s
    IN  IF d # <<>> /\ all_digits(d) /\ Len(d) <= 9
        THEN Some(IF Head(s) = "-" THEN 0 - digits_value(d, 0) ELSE digits_value(d, 0))
        ELSE None

\* str::parse::<f64>, for the decimal literals without an exponent and the words
\* inf, infinity and nan: an optional sign, then digits with at most one point and
\* at least one digit, or one of the words in any letter case.  The result keeps
\* what the engine looks at: whether the number is finite, its sign, and whether
\* it is zero.
parse_f64(s) ==
    LET signed == s # <<>> /\ Head(s) \in {"+", "-"}
        neg == s # <<>> /\ Head(s) = "-"
        body == IF signed THEN Tail(s) ELSE s
        dot == find(body, <<".">>)
        int_part == IF dot = 0 THEN body ELSE SubSeq(body, 1, dot - 1)
        frac_part == IF dot = 0 THEN <<>> ELSE SubSeq(body, dot + 1, Len(body))
        decimal == /\ all_digits(int_part)
                   /\ all_digits(frac_part)
                   /\ Len(int_part) + Len(frac_part) >= 1
        zero == \A i \in DOMAIN body : body[i] \in {"0", "."}
    IN  IF lower_text(body) \in {FloatWord.inf, FloatWord.infinity}
        THEN Some([kind |-> "inf", neg |-> neg, zero |-> FALSE])
        ELSE IF lower_text(body) = FloatWord.nan
        THEN Some([kind |-> "nan", neg |-> neg, zero |-> FALSE])
        ELSE IF decimal
        THEN Some([kind |-> "finite", neg |-> neg, zero |-> zero])
        ELSE None

\* serde_json::Value.  Every value has the same fields, so that two values of
\* different types can be compared: t is the type, s the text of a string (or the
\* literal of a float), n the integer (or 0/1 for a boolean), a the elements of
\* an array.
VStr(s) == [t |-> "string", s |-> s, n |-> 0, a |-> <<>>]

VInt(n) == [t |-> "integer", s |-> <<>>, n |-> n, a |-> <<>>]

VFloat(s) == [t |-> "float", s |-> s, n |-> 0, a |-> <<>>]

VBool(b) == [t |-> "bool", s |-> <<>>, n |-> IF b THEN 1 ELSE 0, a |-> <<>>]

VNull == [t |-> "null", s |-> <<>>, n |-> 0, a |-> <<>>]

VArr(a) == [t |-> "array", s |-> <<>>, n |-> 0, a |-> a]

\* json!(f) of an f64: a number when f is finite, null otherwise.
json_f64(f, s) == IF f.kind = "finite" THEN VFloat(s) ELSE VNull

\* Value::as_str, Value::as_i64, Value::as_array
as_str(v) == IF v.t = "string" THEN Some(v.s) ELSE None

as_i64(v) == IF v.t = "integer" THEN Some(v.n) ELSE None

as_array(v) == IF v.t = "array" THEN Some(v.a) ELSE None

\* HashMap::insert and HashMap::get on an action record (a map from field name to
\* value); the empty sequence is the empty map.
insert(m, k, v) == [x \in (DOMAIN m) \cup {k} |-> IF x = k THEN v ELSE m[x]]

get(m, k) == IF k \in DOMAIN m THEN Some(m[k]) ELSE None

\* action.get(k).and_then(|v| v.as_str())
get_str(m, k) == IF k \in DOMAIN m THEN as_str(m[k]) ELSE None

\* action.get(k).and_then(|v| v.as_array())
get_array(m, k) == IF k \in DOMAIN m THEN as_array(m[k]) ELSE None

(***************************************************************************)
(* The response split made once the stream has ended                       *)
(* (ModelClient::parse_response).                                          *)
(***************************************************************************)

\* The marker literals, in the order the client checks them.
action_markers == <<Prefix.finish_message, Prefix.do_action>>

\* Rules 1 and 2 of parse_response for one marker: the text before the first
\* occurrence of the marker, trimmed, and the marker followed by the text after it.
marker_split_drops_marker(content, marker) ==
    <<trim(splitn2(content, marker)[1]), splitn2(content, marker)[2]>>

marker_split(content, marker) ==
    <<trim(splitn2(content, marker)[1]), marker \o splitn2(content, marker)[2]>>

\* Rule 3 of parse_response: the text before the first <answer> without the think
\* tags, trimmed, and the text after it without any </answer>, trimmed.
answer_split_keeps_think_tags(content) ==
    <<trim(splitn2(content, Tag.answer_open)[1]),
      trim(replace(splitn2(content, Tag.answer_open)[2], Tag.answer_close, <<>>))>>

answer_split(content) ==
    <<trim(replace(replace(splitn2(content, Tag.answer_open)[1],
                           Tag.think_open, <<>>), Tag.think_close, <<>>)),
      trim(replace(splitn2(content, Tag.answer_open)[2], Tag.answer_close, <<>>))>>

\* ModelClient::parse_response: <<thinking, action>>.
parse_response(content) ==
    IF contains(content, action_markers[1])
    THEN marker_split(content, action_markers[1])
    ELSE IF contains(content, action_markers[2])
    THEN marker_split(content, action_markers[2])
    ELSE IF contains(content, Tag.answer_open)
    THEN answer_split(content)
    ELSE <<<<>>, content>>

(***************************************************************************)
(* The action call parser (parse_action, parse_do_action, parse_value).    *)
(***************************************************************************)

\* The three results of a parser function: a value, an error value, or a panic.
Ok(v) == [kind |-> "Ok", value |-> v, error |-> <<>>]

Err(e) == [kind |-> "Err", value |-> <<>>, error |-> e]

Panic == [kind |-> "Panic", value |-> <<>>, error |-> <<>>]

\* One element of an array value: integer, then float, then quote-stripped string.
parse_element_as_string(e0) == VStr(trim_matches(trim(e0), "\""))

parse_element(e0) ==
    LET e == trim(e0)
    IN  IF parse_i64(e) # None THEN VInt(parse_i64(e)[1])
        ELSE IF parse_f64(e) # None THEN json_f64(parse_f64(e)[1], e)
        ELSE VStr(trim_matches(e, "\""))

\* parse_value: [panic, value].  A text that is a single double quote starts and
\* ends with a quote, and the slice s[1..s.len() - 1] of it panics.
parse_value(s0) ==
    LET s == trim(s0)
        pieces == split_comma(SubSeq(s, 2, Len(s) - 1), <<>>, <<>>)
    IN  IF starts_with(s, <<"\"">>) /\ ends_with(s, <<"\"">>)
        THEN IF Len(s) < 2
             THEN [panic |-> TRUE, value |-> VNull]
             ELSE [panic |-> FALSE,
                   value |-> VStr(replace(replace(SubSeq(s, 2, Len(s) - 1),
                                                  <<"\\", "n">>, <<"\n">>),
                                          <<"\\", "t">>, <<"\t">>))]
        ELSE IF starts_with(s, <<"[">>) /\ ends_with(s, <<"]">>)
        THEN [panic |-> FALSE,
              value |-> VArr([i \in DOMAIN pieces |-> parse_element(pieces[i])])]
        ELSE IF parse_i64(s) # None
        THEN [panic |-> FALSE, value |-> VInt(parse_i64(s)[1])]
        ELSE IF parse_f64(s) # None
        THEN [panic |-> FALSE, value |-> json_f64(parse_f64(s)[1], s)]
        ELSE IF s \in {BoolLiteral.t1, BoolLiteral.t2}
        THEN [panic |-> FALSE, value |-> VBool(TRUE)]
        ELSE IF s \in {BoolLiteral.f1, BoolLiteral.f2}
        THEN [panic |-> FALSE, value |-> VBool(FALSE)]
        ELSE [panic |-> FALSE, value |-> VStr(s)]

\* The scanner state of parse_do_action before the first character.
scan_init ==
    [ action |-> insert(<<>>, Key.metadata, VStr(Kind.do)),
      current_key |-> <<>>, current_value |-> <<>>,
      in_string |-> FALSE, in_array |-> FALSE, escape_next |-> FALSE,
      parsing_value |-> FALSE, panicked |-> FALSE ]

\* The end of a key=value pair: the pair is inserted when the key is not empty.
close_pair(st) ==
    IF st.current_key = <<>> THEN st
    ELSE IF parse_value(trim(st.current_value)).panic THEN [st EXCEPT !.panicked = TRUE]
    ELSE [st EXCEPT !.action = insert(@, trim(st.current_key),
                                      parse_value(trim(st.current_value)).value)]

\* current_value.push(ch) when a value is being read.
push_value(st, ch) ==
    IF st.parsing_value THEN [st EXCEPT !.current_value = Append(@, ch)] ELSE st

\* One iteration of the character loop of parse_do_action.
scan_char(st, ch) ==
    IF st.escape_next
    THEN [push_value(st, ch) EXCEPT !.escape_next = FALSE]
    ELSE IF ch = "\\"
    THEN [push_value(st, ch) EXCEPT !.escape_next = TRUE]
    ELSE IF ch = "\"" /\ ~st.in_array
    THEN [push_value(st, ch) EXCEPT !.in_string = ~st.in_string]
    ELSE IF ch = "[" /\ ~st.in_string
    THEN [push_value(st, ch) EXCEPT !.in_array = TRUE]
    ELSE IF ch = "]" /\ ~st.in_string
    THEN [push_value(st, ch) EXCEPT !.in_array = FALSE]
    ELSE IF ch = "=" /\ ~st.in_string /\ ~st.in_array /\ ~st.parsing_value
    THEN [st EXCEPT !.parsing_value = TRUE]
    ELSE IF ch = "," /\ ~st.in_string /\ ~st.in_array
    THEN [close_pair(st) EXCEPT !.current_key = <<>>, !.current_value = <<>>,
                                !.parsing_value = FALSE]
    ELSE IF st.parsing_value
    THEN [st EXCEPT !.current_value = Append(@, ch)]
    ELSE [st EXCEPT !.current_key = Append(@, ch)]

RECURSIVE scan(_, _)
\* The character loop of parse_do_action; a panic of parse_value ends it.
scan(st, s) ==
    IF s = <<>> \/ st.panicked THEN st ELSE scan(scan_char(st, Head(s)), Tail(s))

\* parse_do_action
parse_do_action(response) ==
    LET stripped == SubSeq(response, Len(Prefix.do_open) + 1, Len(response))
        inner == SubSeq(stripped, 1, Len(stripped) - 1)
        final == close_pair(scan(scan_init, inner))
    IN  IF ~(starts_with(response, Prefix.do_open) /\ ends_with(stripped, Prefix.close))
        THEN Err(HandlerMsg.InvalidDoFormat)
        ELSE IF final.panicked THEN Panic
        ELSE Ok(final.action)

\* The record of the special-cased Type / Type_Name branch of parse_action.
type_action(text) ==
    insert(insert(insert(<<>>, Key.metadata, VStr(Kind.do)),
                  Key.action, VStr(Name.Type)),
           Key.text, VStr(text))

\* The record of the finish branch of parse_action.
finish_record(response) ==
    insert(insert(<<>>, Key.metadata, VStr(Kind.finish)),
           Key.message,
           VStr(trim_end_matches(
                    trim_start_matches(replace(response, Prefix.finish_message, <<>>),
                                       <<"\"">>),
                    Prefix.quote_paren)))

\* parse_action.  The Type branch slices the text six bytes after the start of
\* text= ; the slice panics when that offset is past the end of the text or inside
\* a multi-byte character.
parse_action(response0) ==
    LET response == trim(response0)
        is_type == \/ starts_with(response, Prefix.type)
                   \/ starts_with(response, Prefix.type_name)
        text_start == find(response, Prefix.text_eq)
        cut == char_boundary(response,
                             byte_len(SubSeq(response, 1, text_start - 1)) + 6)
        text_part == SubSeq(response, MinOf(cut) + 1, Len(response))
        end_pos == rfind(text_part, Prefix.quote_paren)
    IN  IF is_type /\ text_start # 0 /\ cut = {}
        THEN Panic
        ELSE IF is_type /\ text_start # 0 /\ end_pos # 0
        THEN Ok(type_action(SubSeq(text_part, 1, end_pos - 1)))
        ELSE IF starts_with(response, Prefix.do_open)
        THEN parse_do_action(response)
        ELSE IF starts_with(response, Prefix.finish_open)
        THEN Ok(finish_record(response))
        ELSE Err(HandlerMsg.FailedToParse \o response)

\* finish_action
finish_action(message) ==
    IF message = None THEN insert(<<>>, Key.metadata, VStr(Kind.finish))
    ELSE insert(insert(<<>>, Key.metadata, VStr(Kind.finish)),
                Key.message, VStr(message[1]))

(***************************************************************************)
(* The dispatcher (ActionHandler::execute and its handlers).               *)
(*                                                                         *)
(* The collaborators are inputs of a dispatch, the record env:             *)
(*   env.confirm       the answer of the confirmation callback             *)
(*   env.fail_at       the device call of the handler that fails (0: none) *)
(*   env.launch_found  whether launch_app knows the app                    *)
(* A handler returns its Result<ActionResult> together with what it did:   *)
(* the device primitives it called, in order, the confirmation callback    *)
(* calls (message and answer) and the takeover callback calls.  The pixel  *)
(* coordinates handed to a primitive are not part of the call log.         *)
(***************************************************************************)

\* ActionResult::success, ActionResult::failure, ActionResult::finish
ActionResult_success ==
    [success |-> TRUE, should_finish |-> FALSE, message |-> None,
     requires_confirmation |-> FALSE]

\* ActionResult_failure with the bug of an outcome that ends the run (mutant).
ActionResult_failure_finishes(message) ==
    [success |-> FALSE, should_finish |-> TRUE, message |-> Some(message),
     requires_confirmation |-> FALSE]

ActionResult_failure(message) ==
    [success |-> FALSE, should_finish |-> FALSE, message |-> Some(message),
     requires_confirmation |-> FALSE]

ActionResult_finish(message) ==
    [success |-> TRUE, should_finish |-> TRUE, message |-> message,
     requires_confirmation |-> FALSE]

\* The Display text of AdbError::CommandFailed(m).
CommandFailed(m) == ErrorFmt.CommandFailed \o m

\* The Display text of the error a failing device call returns (a timeout).
device_error == ErrorFmt.Timeout \o <<"a", "d", "b">>

HOk(r, calls, confirms, takeovers) ==
    [kind |-> "Ok", value |-> r, error |-> <<>>,
     calls |-> calls, confirms |-> confirms, takeovers |-> takeovers]

HErr(e, calls, confirms) ==
    [kind |-> "Err", value |-> ActionResult_success, error |-> e,
     calls |-> calls, confirms |-> confirms, takeovers |-> <<>>]

HPanic ==
    [kind |-> "Panic", value |-> ActionResult_success, error |-> <<>>,
     calls |-> <<>>, confirms |-> <<>>, takeovers |-> <<>>]

\* One device call as the only effect of a handler: `factory.f(..).await?` and
\* then Ok(ActionResult::success()).
device_call(name, env, confirms) ==
    IF env.fail_at = 1 THEN HErr(device_error, <<name>>, confirms)
    ELSE HOk(ActionResult_success, <<name>>, confirms, <<>>)

\* element.iter().filter_map(|v| v.as_i64()).collect()
coords_of(arr) ==
    LET ints == SelectSeq(arr, LAMBDA v : v.t = "integer")
    IN  [i \in DOMAIN ints |-> ints[i].n]

handle_launch(action, env) ==
    LET app_name == get_str(action, Key.app)
    IN  IF app_name = None THEN HErr(CommandFailed(HandlerMsg.NoAppName), <<>>, <<>>)
        ELSE IF env.fail_at = 1 THEN HErr(device_error, <<"launch_app">>, <<>>)
        ELSE IF env.launch_found THEN HOk(ActionResult_success, <<"launch_app">>, <<>>, <<>>)
        ELSE HOk(ActionResult_failure(HandlerMsg.AppNotFound \o app_name[1]),
                 <<"launch_app">>, <<>>, <<>>)

\* cancel_tap with the bug of ignoring the callback's answer (mutant).
cancel_tap_never(message, answer) == FALSE

\* The answer of the confirmation callback that makes handle_tap return without
\* tapping: a message is present and the callback returned false.
cancel_tap(message, answer) == message # None /\ ~answer

handle_tap(action, env) ==
    LET element == get_array(action, Key.element)
        message == get_str(action, Key.message)
        confirms == IF message = None THEN <<>>
                    ELSE <<[message |-> message[1], answer |-> env.confirm]>>
    IN  IF element = None THEN HErr(CommandFailed(HandlerMsg.NoElement), <<>>, <<>>)
        ELSE IF Len(coords_of(element[1])) < 2
        THEN HErr(CommandFailed(HandlerMsg.InvalidElement), <<>>, <<>>)
        ELSE IF cancel_tap(message, env.confirm)
        THEN HOk([success |-> FALSE, should_finish |-> TRUE,
                  message |-> Some(HandlerMsg.UserCancelled),
                  requires_confirmation |-> FALSE],
                 <<>>, confirms, <<>>)
        ELSE device_call("tap", env, confirms)

\* type_calls with the bug of injecting the text before the field is cleared
\* (mutant).
type_calls_inject_first ==
    <<"detect_and_set_adb_keyboard", "type_text", "clear_text", "restore_keyboard">>

\* The four device calls of handle_type, in order.
type_calls == <<"detect_and_set_adb_keyboard", "clear_text", "type_text", "restore_keyboard">>

handle_type(action, env) ==
    IF env.fail_at \in DOMAIN type_calls
    THEN HErr(device_error, SubSeq(type_calls, 1, env.fail_at), <<>>)
    ELSE HOk(ActionResult_success, type_calls, <<>>, <<>>)

handle_swipe(action, env) ==
    LET start == get_array(action, Key.start)
        end == get_array(action, Key.end)
    IN  IF start = None THEN HErr(CommandFailed(HandlerMsg.MissingStart), <<>>, <<>>)
        ELSE IF end = None THEN HErr(CommandFailed(HandlerMsg.MissingEnd), <<>>, <<>>)
        ELSE IF Len(coords_of(start[1])) < 2 \/ Len(coords_of(end[1])) < 2
        THEN HErr(CommandFailed(HandlerMsg.InvalidSwipe), <<>>, <<>>)
        ELSE device_call("swipe", env, <<>>)

handle_back(env) == device_call("back", env, <<>>)

handle_home(env) == device_call("home", env, <<>>)

handle_double_tap(action, env) ==
    LET element == get_array(action, Key.element)
    IN  IF element = None THEN HErr(CommandFailed(HandlerMsg.NoElement), <<>>, <<>>)
        ELSE IF Len(coords_of(element[1])) < 2
        THEN HErr(CommandFailed(HandlerMsg.InvalidElement), <<>>, <<>>)
        ELSE device_call("double_tap", env, <<>>)

handle_long_press(action, env) ==
    LET element == get_array(action, Key.element)
    IN  IF element = None THEN HErr(CommandFailed(HandlerMsg.NoElement), <<>>, <<>>)
        ELSE IF Len(coords_of(element[1])) < 2
        THEN HErr(CommandFailed(HandlerMsg.InvalidElement), <<>>, <<>>)
        ELSE device_call("long_press", env, <<>>)

\* The number of seconds handle_wait sleeps: the duration text without the words
\* seconds / second, trimmed, parsed as f64, 1.0 when that fails.
wait_duration(action) ==
    LET given == get_str(action, Key.duration)
        duration_str == IF given = None THEN HandlerMsg.DefaultDuration ELSE given[1]
        parsed == parse_f64(trim(replace(replace(duration_str, HandlerMsg.seconds, <<>>),
                                         HandlerMsg.second, <<>>)))
    IN  IF parsed = None THEN [kind |-> "finite", neg |-> FALSE, zero |-> FALSE]
        ELSE parsed[1]

\* Duration::from_secs_f64 panics on a negative or non-finite number.
from_secs_f64_panics(d) == d.kind # "finite" \/ (d.neg /\ ~d.zero)

handle_wait(action) ==
    IF from_secs_f64_panics(wait_duration(action)) THEN HPanic
    ELSE HOk(ActionResult_success, <<>>, <<>>, <<>>)

handle_takeover(action) ==
    LET message == get_str(action, Key.message)
    IN  HOk(ActionResult_success, <<>>, <<>>,
            <<IF message = None THEN HandlerMsg.UserIntervention ELSE message[1]>>)

\* The match on the action name in ActionHandler::execute.
dispatch(action_name, action, env) ==
    CASE action_name = Name.Launch -> handle_launch(action, env)
      [] action_name = Name.Tap -> handle_tap(action, env)
      [] action_name \in {Name.Type, Name.Type_Name} -> handle_type(action, env)
      [] action_name = Name.Swipe -> handle_swipe(action, env)
      [] action_name = Name.Back -> handle_back(env)
      [] action_name = Name.Home -> handle_home(env)
      [] action_name = Name.Double_Tap -> handle_double_tap(action, env)
      [] action_name = Name.Long_Press -> handle_long_press(action, env)
      [] action_name = Name.Wait -> handle_wait(action)
      [] action_name = Name.Take_over -> handle_takeover(action)
      [] action_name \in {Name.Note, Name.Call_API} ->
             HOk(ActionResult_success, <<>>, <<>>, <<>>)
      [] action_name = Name.Interact ->
             HOk([success |-> TRUE, should_finish |-> FALSE,
                  message |-> Some(HandlerMsg.UserInteraction),
                  requires_confirmation |-> FALSE], <<>>, <<>>, <<>>)
      [] OTHER -> HErr(CommandFailed(HandlerMsg.UnknownAction \o action_name), <<>>, <<>>)

\* unwrap_or("") of an optional text
or_empty(o) == IF o = None THEN <<>> ELSE o[1]

\* execute with the bug of dispatching every record that names an action, a finish
\* record too (mutant).
execute_dispatches_named(action, env) ==
    LET h == dispatch(or_empty(get_str(action, Key.action)), action, env)
    IN  IF get_str(action, Key.action) = None
        THEN [HOk(ActionResult_finish(get_str(action, Key.message)), <<>>, <<>>, <<>>)
                 EXCEPT !.kind = "Outcome"]
        ELSE IF h.kind = "Panic" THEN h
        ELSE IF h.kind = "Ok" THEN [h EXCEPT !.kind = "Outcome"]
        ELSE [h EXCEPT !.kind = "Outcome",
                       !.value = ActionResult_failure(HandlerMsg.ActionFailed \o h.error)]

\* ActionHandler::execute: kind is "Outcome" with the ActionResult in value, or
\* "Panic" when the handler panicked.
execute(action, env) ==
    LET action_type == or_empty(get_str(action, Key.metadata))
        h == dispatch(or_empty(get_str(action, Key.action)), action, env)
    IN  IF action_type = Kind.finish
        THEN [HOk(ActionResult_finish(get_str(action, Key.message)), <<>>, <<>>, <<>>)
                 EXCEPT !.kind = "Outcome"]
        ELSE IF action_type # Kind.do
        THEN [HOk(ActionResult_failure(HandlerMsg.UnknownActionType \o action_type),
                  <<>>, <<>>, <<>>) EXCEPT !.kind = "Outcome"]
        ELSE IF h.kind = "Panic" THEN h
        ELSE IF h.kind = "Ok" THEN [h EXCEPT !.kind = "Outcome"]
        ELSE [h EXCEPT !.kind = "Outcome",
                       !.value = ActionResult_failure(HandlerMsg.ActionFailed \o h.error)]

(***************************************************************************)
(* The agent (PhoneAgent): its state, run and execute_step.                *)
(***************************************************************************)

\* The largest max_steps an agent of the model is configured with.
MaxStepsBound == 3

VARIABLES
    max_steps,      \* agent_config.max_steps
    step_count,     \* PhoneAgent::step_count
    context,        \* PhoneAgent::context: the turns, each a role and whether it holds an image
    pc,             \* where the caller and the agent are: see Init
    is_first,       \* the is_first argument of the execute_step call being made
    response,       \* the ModelResponse of the step: thinking, action, raw_content
    action,         \* the action record of the step
    result,         \* the ActionResult of the step's dispatch
    step_result,    \* Option<StepResult>: what the last execute_step returned
    run_result,     \* Option<Result<String>>: what the last run returned
    captures,       \* screen captures started in this run
    model_calls,    \* model requests made in this run
    unfinished,     \* steps of this run that returned finished = false
    log,            \* what the current step did: see NoLog
    caller,         \* the entry point of the last call: "none", "run" or "step"
    user_prompt,    \* the user_prompt argument of the execute_step call being made
    was_reset,      \* whether reset has been called on this agent
    stream,         \* ModelClient::request: the text the stream has yet to deliver
    raw_content,    \* ModelClient::request: raw_content
    buffer,         \* ModelClient::request: buffer
    in_action_phase,\* ModelClient::request: in_action_phase
    stdout,         \* what ModelClient::request has printed for the observer
    input,          \* the text a caller hands to parse_action
    parse_result,   \* Option: what that call of parse_action returned
    lock,           \* the RwLock around DEVICE_FACTORY: its holders and its wait queue
    selector,       \* the DeviceFactory inside the lock: its device_type
    sessions,       \* the device operation of each session: see IdleSession
    configurer,     \* where the caller of set_device_type is
    relative,       \* the element handed to convert_relative_to_absolute
    screen,         \* the screen width and height handed to it
    absolute        \* Option: the pixel pair it returned

\* The state of the agent but for pc and response.
agent_vars ==
    <<max_steps, step_count, context, is_first, action, result, step_result,
      run_result, captures, model_calls, unfinished, log, caller, user_prompt,
      was_reset>>

\* The state of one model request and of one direct call of parse_action.
request_vars == <<stream, raw_content, buffer, in_action_phase, stdout, input, parse_result>>

\* The state beneath the dispatcher: the device lock with the operations of the
\* sessions, and one coordinate conversion.
device_vars == <<lock, selector, sessions, configurer, relative, screen, absolute>>

vars ==
    <<max_steps, step_count, context, pc, is_first, response, action, result,
      step_result, run_result, captures, model_calls, unfinished, log,
      caller, user_prompt, was_reset,
      stream, raw_content, buffer, in_action_phase, stdout, input, parse_result,
      lock, selector, sessions, configurer, relative, screen, absolute>>

\* The log of a step that has done nothing yet.
\*   capture  "none", "ok", "screenshot_failed" or "current_app_failed"
\*   model    "none", "ok" or "error"
\*   parse    "none", or the kind of parse_action's result: "Ok", "Err", "Panic"
\*   exec     "none", or the kind of execute's result: "Outcome", "Panic"
\*   entry    the length of the context when the step began
\*   calls, confirms, takeovers: the device primitives and callbacks invoked
\*   device_failed  whether a device primitive of the dispatch returned an error
NoLog ==
    [capture |-> "none", model |-> "none", parse |-> "none", exec |-> "none", entry |-> 0,
     calls |-> <<>>, confirms |-> <<>>, takeovers |-> <<>>, device_failed |-> FALSE]

NoResponse == [thinking |-> <<>>, action |-> <<>>, raw_content |-> <<>>]

\* MessageBuilder::create_system_message, create_user_message (with the screenshot),
\* create_assistant_message
system_message == [role |-> "system", image |-> FALSE]

user_message == [role |-> "user", image |-> TRUE]

assistant_message == [role |-> "assistant", image |-> FALSE]

\* MessageBuilder::remove_images_from_message
remove_images_from_message(m) == IF m.role = "user" THEN [m EXCEPT !.image = FALSE] ELSE m

\* context.pop() and push of the message without its images
strip_last(ctx) ==
    IF ctx = <<>> THEN ctx
    ELSE [ctx EXCEPT ![Len(ctx)] = remove_images_from_message(ctx[Len(ctx)])]

\* The text of a failing model request: an error item of the stream.
stream_error == <<"s", "t", "r", "e", "a", "m">>

\* model_error_result with the bug of a step that does not end the run (mutant).
model_error_result_unfinished(e) ==
    [success |-> FALSE, finished |-> FALSE, action |-> None, thinking |-> <<>>,
     message |-> Some(AgentMsg.ModelError \o e)]

\* The StepResult execute_step returns when the model request fails.
model_error_result(e) ==
    [success |-> FALSE, finished |-> TRUE, action |-> None, thinking |-> <<>>,
     message |-> Some(AgentMsg.ModelError \o e)]

\* action_or_finish with the bug of a fallback record without the text (mutant).
action_or_finish_no_message(parsed, action_text) ==
    IF parsed.kind = "Ok" THEN parsed.value ELSE finish_action(None)

\* The action of the step: the parsed record, or a finish record carrying the raw
\* action text when parse_action returned an error.
action_or_finish(parsed, action_text) ==
    IF parsed.kind = "Ok" THEN parsed.value ELSE finish_action(Some(action_text))

\* step_finished with the bug of ignoring the outcome's should_finish (mutant).
step_finished_record_only(act, res) == get_str(act, Key.metadata) = Some(Kind.finish)

\* The finished flag of the step.
step_finished(act, res) ==
    get_str(act, Key.metadata) = Some(Kind.finish) \/ res.should_finish

\* The StepResult execute_step returns after the dispatch.
dispatched_result(act, res, thinking) ==
    [success |-> res.success, finished |-> step_finished(act, res),
     action |-> Some(act), thinking |-> thinking,
     message |-> IF res.message # None THEN res.message ELSE get_str(act, Key.message)]

\* capture_ok with the bug of ignoring the error of get_current_app (mutant).
capture_ok_screenshot_only(capture) == capture # "screenshot_failed"

\* Whether execute_step goes on after the two capture calls: both returned Ok.
capture_ok(capture) == capture = "ok"

\* run_continues with the bug of an inclusive comparison (mutant).
run_continues_inclusive(count, max) == count <= max

\* The condition of the while loop of run.
run_continues(count, max) == count < max

\* The device lock with no holder and no waiter.
NoLock == [readers |-> {}, writer |-> FALSE, queue |-> <<>>]

\* No call of the agent is in progress: it is as constructed or reset ("idle"), or
\* its last call has returned to the caller (run with Ok or Err, step with a
\* StepResult, with the error of a capture call, or with the missing-task error).
AtCaller ==
    \/ pc \in {"idle", "run_returned", "step_failed", "step_rejected"}
    \/ pc = "step_returned" /\ caller = "step"

Init ==
    /\ max_steps \in 0..MaxStepsBound
    /\ step_count = 0
    /\ context = <<>>
    /\ pc = "idle"
    /\ is_first = TRUE
    /\ response = NoResponse
    /\ action = <<>>
    /\ result = ActionResult_success
    /\ step_result = None
    /\ run_result = None
    /\ captures = 0
    /\ model_calls = 0
    /\ unfinished = 0
    /\ log = NoLog
    /\ caller = "none"
    /\ user_prompt = None
    /\ was_reset = FALSE
    /\ stream = <<>>
    /\ raw_content = <<>>
    /\ buffer = <<>>
    /\ in_action_phase = FALSE
    /\ stdout = <<>>
    /\ input = <<>>
    /\ parse_result = <<>>
    /\ lock = NoLock
    /\ selector = "Adb"
    /\ sessions = <<>>
    /\ configurer = "idle"
    /\ relative = <<0, 0>>
    /\ screen = <<0, 0>>
    /\ absolute = None

\* PhoneAgent::run up to its first call of execute_step.  The task text only enters
\* the first user turn, whose text the model leaves out.
Run ==
    /\ AtCaller
    /\ context' = <<>>
    /\ step_count' = 0
    /\ pc' = "execute_step"
    /\ caller' = "run"
    /\ is_first' = TRUE
    /\ user_prompt' = Some("task")
    /\ response' = NoResponse
    /\ action' = <<>>
    /\ result' = ActionResult_success
    /\ step_result' = None
    /\ run_result' = None
    /\ captures' = 0
    /\ model_calls' = 0
    /\ unfinished' = 0
    /\ log' = NoLog
    /\ UNCHANGED <<max_steps, was_reset>>
    /\ UNCHANGED request_vars
    /\ UNCHANGED device_vars

\* Capture with the bug of counting only the steps whose capture succeeded
\* (mutant).
Capture_counts_captured(capture) ==
    /\ pc = "execute_step"
    /\ step_count' = IF capture_ok(capture) THEN step_count + 1 ELSE step_count
    /\ captures' = captures + 1
    /\ log' = [NoLog EXCEPT !.capture = capture, !.entry = Len(context)]
    /\ response' = NoResponse
    /\ action' = <<>>
    /\ result' = ActionResult_success
    /\ IF capture_ok(capture)
       THEN /\ context' = IF is_first
                          THEN context \o <<system_message, user_message>>
                          ELSE Append(context, user_message)
            /\ pc' = "model_request"
            /\ UNCHANGED <<run_result, step_result>>
       ELSE /\ IF caller = "run"
               THEN /\ run_result' = Some([kind |-> "Err", message |-> device_error])
                    /\ pc' = "run_returned"
               ELSE /\ pc' = "step_failed"
                    /\ UNCHANGED run_result
            /\ step_result' = None
            /\ UNCHANGED context
    /\ UNCHANGED <<max_steps, is_first, model_calls, unfinished, caller, user_prompt,
                   was_reset>>
    /\ UNCHANGED request_vars
    /\ UNCHANGED device_vars

\* execute_step from its entry to the model request: the counter, the two capture
\* calls (the second is made only when the first returned Ok), and the new turns.
\* A capture error is returned by execute_step and by run (the ? operators).
Capture(capture) ==
    /\ pc = "execute_step"
    /\ step_count' = step_count + 1
    /\ captures' = captures + 1
    /\ log' = [NoLog EXCEPT !.capture = capture, !.entry = Len(context)]
    /\ response' = NoResponse
    /\ action' = <<>>
    /\ result' = ActionResult_success
    /\ IF capture_ok(capture)
       THEN /\ context' = IF is_first
                          THEN context \o <<system_message, user_message>>
                          ELSE Append(context, user_message)
            /\ pc' = "model_request"
            /\ UNCHANGED <<run_result, step_result>>
       ELSE /\ IF caller = "run"
               THEN /\ run_result' = Some([kind |-> "Err", message |-> device_error])
                    /\ pc' = "run_returned"
               ELSE /\ pc' = "step_failed"
                    /\ UNCHANGED run_result
            /\ step_result' = None
            /\ UNCHANGED context
    /\ UNCHANGED <<max_steps, is_first, model_calls, unfinished, caller, user_prompt,
                   was_reset>>
    /\ UNCHANGED request_vars
    /\ UNCHANGED device_vars

\* The model request fails: execute_step returns a finished StepResult.
ModelError ==
    /\ pc = "model_request"
    /\ model_calls' = model_calls + 1
    /\ log' = [log EXCEPT !.model = "error"]
    /\ step_result' = Some(model_error_result(stream_error))
    /\ pc' = "step_returned"
    /\ UNCHANGED <<max_steps, step_count, context, is_first, response, action, result,
                   run_result, captures, unfinished, caller, user_prompt, was_reset>>
    /\ UNCHANGED request_vars
    /\ UNCHANGED device_vars

\* The model request returns the text raw: the response is split, the action text
\* parsed, and the image removed from the last turn.  A panic of parse_action
\* unwinds out of execute_step and run.
ModelResponse(raw) ==
    LET split == parse_response(raw)
        parsed == parse_action(split[2])
    IN  /\ pc = "model_request"
        /\ model_calls' = model_calls + 1
        /\ response' = [thinking |-> split[1], action |-> split[2], raw_content |-> raw]
        /\ log' = [log EXCEPT !.model = "ok", !.parse = parsed.kind]
        /\ IF parsed.kind = "Panic"
           THEN /\ pc' = "panicked"
                /\ UNCHANGED <<action, context>>
           ELSE /\ action' = action_or_finish(parsed, split[2])
                /\ context' = strip_last(context)
                /\ pc' = "dispatch"
        /\ UNCHANGED <<max_steps, step_count, is_first, result, step_result, run_result,
                       captures, unfinished, caller, user_prompt, was_reset>>
        /\ UNCHANGED request_vars
        /\ UNCHANGED device_vars

\* The dispatch of the step's record and the rest of execute_step: the assistant
\* turn, the finished flag and the StepResult.  A panic of the handler unwinds out
\* of execute_step and run.
Dispatch(env) ==
    LET ex == execute(action, env)
    IN  /\ pc = "dispatch"
        /\ log' = [log EXCEPT !.exec = ex.kind, !.calls = ex.calls,
                              !.confirms = ex.confirms, !.takeovers = ex.takeovers,
                              !.device_failed = (ex.error = device_error)]
        /\ IF ex.kind = "Panic"
           THEN /\ pc' = "panicked"
                /\ UNCHANGED <<result, context, step_result>>
           ELSE /\ result' = ex.value
                /\ context' = Append(context, assistant_message)
                /\ step_result' = Some(dispatched_result(action, ex.value, response.thinking))
                /\ pc' = "step_returned"
        /\ UNCHANGED <<max_steps, step_count, is_first, response, action, run_result,
                       captures, model_calls, unfinished, caller, user_prompt, was_reset>>
        /\ UNCHANGED request_vars
        /\ UNCHANGED device_vars

\* run after an execute_step returned Ok: return the message of a finished step,
\* call execute_step again while the loop condition holds, or return the
\* exhaustion message.
RunLoop ==
    /\ pc = "step_returned"
    /\ caller = "run"
    /\ IF step_result[1].finished
       THEN /\ run_result' = Some([kind |-> "Ok",
                                   message |-> IF step_result[1].message = None
                                               THEN AgentMsg.TaskCompleted
                                               ELSE step_result[1].message[1]])
            /\ pc' = "run_returned"
            /\ UNCHANGED <<is_first, user_prompt, unfinished>>
       ELSE IF run_continues(step_count, max_steps)
       THEN /\ pc' = "execute_step"
            /\ is_first' = FALSE
            /\ user_prompt' = None
            /\ unfinished' = unfinished + 1
            /\ UNCHANGED run_result
       ELSE /\ run_result' = Some([kind |-> "Ok", message |-> AgentMsg.MaxStepsReached])
            /\ pc' = "run_returned"
            /\ unfinished' = unfinished + 1
            /\ UNCHANGED <<is_first, user_prompt>>
    /\ UNCHANGED <<max_steps, step_count, context, response, action, result, step_result,
                   captures, model_calls, log, caller, was_reset>>
    /\ UNCHANGED request_vars
    /\ UNCHANGED device_vars

\* The collaborator inputs of a dispatch.
Envs == [confirm : BOOLEAN, fail_at : 0..4, launch_found : BOOLEAN]

\* The outcomes of the two capture calls of a step.
Captures == {"ok", "screenshot_failed", "current_app_failed"}

Next ==
    \/ Run
    \/ \E capture \in Captures : Capture(capture)
    \/ ModelError
    \/ \E name \in DOMAIN Corpus : ModelResponse(Corpus[name])
    \/ \E env \in Envs : Dispatch(env)
    \/ RunLoop

Spec == Init /\ [][Next]_vars

(***************************************************************************)
(* The agent driven through its whole interface: run, step and reset.      *)
(***************************************************************************)

\* task_required with the bug of a check that never fires (mutant).
task_required_never(first, task) == FALSE

\* The check step makes before it calls execute_step: the first step of a task
\* needs the task text.
task_required(first, task) == first /\ task = None

\* PhoneAgent::step up to its call of execute_step, or its return of the
\* missing-task error.  The caller stops calling step once the counter has passed
\* the largest step budget of the model.  A step that goes on clears the model's
\* record of what the last run returned.
Step(task) ==
    /\ AtCaller
    /\ step_count <= MaxStepsBound
    /\ IF task_required(context = <<>>, task)
       THEN /\ pc' = "step_rejected"
            /\ UNCHANGED <<caller, is_first, user_prompt, run_result, unfinished>>
       ELSE /\ pc' = "execute_step"
            /\ caller' = "step"
            /\ is_first' = (context = <<>>)
            /\ user_prompt' = task
            /\ run_result' = None
            /\ unfinished' = 0
    /\ UNCHANGED <<max_steps, step_count, context, response, action, result, step_result,
                   captures, model_calls, log, was_reset>>
    /\ UNCHANGED request_vars
    /\ UNCHANGED device_vars

\* Reset with the bug of keeping the step counter (mutant).
Reset_keeps_step_count ==
    /\ AtCaller
    /\ context' = <<>>
    /\ pc' = "idle"
    /\ caller' = "none"
    /\ was_reset' = TRUE
    /\ response' = NoResponse
    /\ action' = <<>>
    /\ result' = ActionResult_success
    /\ step_result' = None
    /\ run_result' = None
    /\ captures' = 0
    /\ model_calls' = 0
    /\ unfinished' = 0
    /\ log' = NoLog
    /\ UNCHANGED <<max_steps, step_count, is_first, user_prompt>>
    /\ UNCHANGED request_vars
    /\ UNCHANGED device_vars

\* PhoneAgent::reset.  The agent's context and counter are cleared; the model's
\* record of the task that is over (its results, counts and log) is cleared with
\* them.
Reset ==
    /\ AtCaller
    /\ context' = <<>>
    /\ step_count' = 0
    /\ pc' = "idle"
    /\ caller' = "none"
    /\ was_reset' = TRUE
    /\ response' = NoResponse
    /\ action' = <<>>
    /\ result' = ActionResult_success
    /\ step_result' = None
    /\ run_result' = None
    /\ captures' = 0
    /\ model_calls' = 0
    /\ unfinished' = 0
    /\ log' = NoLog
    /\ UNCHANGED <<max_steps, is_first, user_prompt>>
    /\ UNCHANGED request_vars
    /\ UNCHANGED device_vars

\* The steps of the agent under any order of calls of run, step and reset, with
\* a model that answers a Tap, an unknown action, a finish or an unparsable text,
\* and a device whose calls succeed or fail.
ApiNext ==
    \/ Run
    \/ \E task \in {None, Some("task")} : Step(task)
    \/ Reset
    \/ \E capture \in Captures : Capture(capture)
    \/ ModelError
    \/ \E name \in {"tap", "unknown", "finish", "unterminated"} :
           ModelResponse(Corpus[name])
    \/ \E env \in [confirm : {TRUE}, fail_at : 0..1, launch_found : {TRUE}] : Dispatch(env)
    \/ RunLoop

ApiSpec == Init /\ [][ApiNext]_vars

(***************************************************************************)
(* One model request (ModelClient::request): the fragments of the stream,  *)
(* what is printed for the observer while they arrive, and the response    *)
(* built when the stream has ended.                                        *)
(***************************************************************************)

\* The complete texts of the streams of the request model, beside the answer envelopes:
\* one marker, several markers in both orders, a marker whose first characters repeat,
\* a marker prefix that is released, no marker, and an unfinished marker at the end.
Streams ==
      \* ok do(action="Back")
    [ think_do |-> <<"o", "k", " ", "d", "o", "(", "a", "c", "t", "i", "o", "n", "=", "\"",
            "B", "a", "c", "k", "\"", ")">>,
      \* do(action="Home")
      do_only |-> <<"d", "o", "(", "a", "c", "t", "i", "o", "n", "=", "\"", "H", "o", "m",
            "e", "\"", ")">>,
      \* done finish(message="ok")
      think_finish |-> <<"d", "o", "n", "e", " ", "f", "i", "n", "i", "s", "h", "(", "m",
            "e", "s", "s", "a", "g", "e", "=", "\"", "o", "k", "\"", ")">>,
      \* do(action="Back") finish(message="x")
      do_then_finish |-> <<"d", "o", "(", "a", "c", "t", "i", "o", "n", "=", "\"", "B", "a",
            "c", "k", "\"", ")", " ", "f", "i", "n", "i", "s", "h", "(", "m", "e", "s", "s",
            "a", "g", "e", "=", "\"", "x", "\"", ")">>,
      \* finish(message="do(action=")
      finish_then_do |-> <<"f", "i", "n", "i", "s", "h", "(", "m", "e", "s", "s", "a", "g",
            "e", "=", "\"", "d", "o", "(", "a", "c", "t", "i", "o", "n", "=", "\"", ")">>,
      \* a do(action="Back") do(action="Home")
      do_twice |-> <<"a", " ", "d", "o", "(", "a", "c", "t", "i", "o", "n", "=", "\"", "B",
            "a", "c", "k", "\"", ")", " ", "d", "o", "(", "a", "c", "t", "i", "o", "n", "=",
            "\"", "H", "o", "m", "e", "\"", ")">>,
      \* dodo(action="Back")
      overlap |-> <<"d", "o", "d", "o", "(", "a", "c", "t", "i", "o", "n", "=", "\"", "B",
            "a", "c", "k", "\"", ")">>,
      \* fi do(action="Back")
      released |-> <<"f", "i", " ", "d", "o", "(", "a", "c", "t", "i", "o", "n", "=", "\"",
            "B", "a", "c", "k", "\"", ")">>,
      \* hello
      no_marker |-> <<"h", "e", "l", "l", "o">>,
      \* hello d
      held_tail |-> <<"h", "e", "l", "l", "o", " ", "d">>,
      \* <think>t</think><answer>do(action="Back")</answer>
      answer_do |-> <<"<", "t", "h", "i", "n", "k", ">", "t", "<", "/", "t", "h", "i", "n",
            "k", ">", "<", "a", "n", "s", "w", "e", "r", ">", "d", "o", "(", "a", "c", "t",
            "i", "o", "n", "=", "\"", "B", "a", "c", "k", "\"", ")", "<", "/", "a", "n", "s",
            "w", "e", "r", ">">> ]

\* The parts of the legacy answer envelopes of the request model: the text inside
\* the think tags, the text inside the answer tags and the text after them.
EnvelopeParts ==
    [ thought : {<<"t">>, <<" ", "t", " ">>},
      inside : {<<"B", "a", "c", "k">>, <<" ", "B", "a", "c", "k", " ">>},
      tail : {<<>>, <<" ", "b", "y", "e">>} ]

\* <think>thought</think><answer>inside</answer>tail
envelope(p) ==
    Tag.think_open \o p.thought \o Tag.think_close
        \o Tag.answer_open \o p.inside \o Tag.answer_close \o p.tail

\* Every complete text of the request model.
StreamTexts ==
    {Streams[name] : name \in DOMAIN Streams} \cup {envelope(p) : p \in EnvelopeParts}

\* The first marker, in the order of action_markers, that the buffer contains.
marker_in(buf) ==
    IF contains(buf, action_markers[1]) THEN Some(action_markers[1])
    ELSE IF contains(buf, action_markers[2]) THEN Some(action_markers[2])
    ELSE None

\* Whether the buffer ends with a strict, non-empty prefix of a marker.
is_potential_marker(buf) ==
    \E m \in 1..Len(action_markers) :
        \E i \in 1..(Len(action_markers[m]) - 1) :
            ends_with(buf, SubSeq(action_markers[m], 1, i))

\* The variables of the loop of request before the first fragment.
stream_start ==
    [raw_content |-> <<>>, buffer |-> <<>>, in_action_phase |-> FALSE, stdout |-> <<>>]

\* The body of the loop of request for one fragment: content is appended to
\* raw_content; outside the action phase it is appended to the buffer, and then
\* either a marker is in the buffer (the text before it and a line end are
\* printed, the action phase begins), or the buffer ends with the beginning of a
\* marker (it is held), or the buffer is printed and cleared.
on_content(st, content) ==
    LET raw == st.raw_content \o content
        buf == st.buffer \o content
    IN  IF st.in_action_phase
        THEN [st EXCEPT !.raw_content = raw]
        ELSE IF marker_in(buf) # None
        THEN [raw_content |-> raw, buffer |-> buf, in_action_phase |-> TRUE,
              stdout |-> st.stdout \o splitn2(buf, marker_in(buf)[1])[1] \o <<"\n">>]
        ELSE IF is_potential_marker(buf)
        THEN [st EXCEPT !.raw_content = raw, !.buffer = buf]
        ELSE [raw_content |-> raw, buffer |-> <<>>, in_action_phase |-> FALSE,
              stdout |-> st.stdout \o buf]

\* A request begins: nothing of the text has arrived.  The agent is as
\* constructed, with the default step budget out of play.
RequestInit ==
    /\ max_steps = 0
    /\ step_count = 0
    /\ context = <<>>
    /\ pc = "request"
    /\ is_first = TRUE
    /\ response = NoResponse
    /\ action = <<>>
    /\ result = ActionResult_success
    /\ step_result = None
    /\ run_result = None
    /\ captures = 0
    /\ model_calls = 0
    /\ unfinished = 0
    /\ log = NoLog
    /\ caller = "none"
    /\ user_prompt = None
    /\ was_reset = FALSE
    /\ stream \in StreamTexts
    /\ raw_content = stream_start.raw_content
    /\ buffer = stream_start.buffer
    /\ in_action_phase = stream_start.in_action_phase
    /\ stdout = stream_start.stdout
    /\ input = <<>>
    /\ parse_result = <<>>
    /\ lock = NoLock
    /\ selector = "Adb"
    /\ sessions = <<>>
    /\ configurer = "idle"
    /\ relative = <<0, 0>>
    /\ screen = <<0, 0>>
    /\ absolute = None

\* The stream delivers its next n characters as one fragment (an empty fragment
\* when n = 0).
Fragment(n) ==
    LET st == on_content([raw_content |-> raw_content, buffer |-> buffer,
                          in_action_phase |-> in_action_phase, stdout |-> stdout],
                         SubSeq(stream, 1, n))
    IN  /\ pc = "request"
        /\ n \in 0..Len(stream)
        /\ stream' = SubSeq(stream, n + 1, Len(stream))
        /\ raw_content' = st.raw_content
        /\ buffer' = st.buffer
        /\ in_action_phase' = st.in_action_phase
        /\ stdout' = st.stdout
        /\ UNCHANGED <<pc, response, input, parse_result>>
        /\ UNCHANGED agent_vars
        /\ UNCHANGED device_vars

\* The stream yields an error: request returns it.
StreamError ==
    /\ pc = "request"
    /\ pc' = "request_failed"
    /\ UNCHANGED <<response, stream, raw_content, buffer, in_action_phase, stdout,
                   input, parse_result>>
    /\ UNCHANGED agent_vars
    /\ UNCHANGED device_vars

\* The stream ends: request splits raw_content and returns the response.
StreamEnd ==
    /\ pc = "request"
    /\ stream = <<>>
    /\ response' = [thinking |-> parse_response(raw_content)[1],
                    action |-> parse_response(raw_content)[2],
                    raw_content |-> raw_content]
    /\ pc' = "request_returned"
    /\ UNCHANGED <<stream, raw_content, buffer, in_action_phase, stdout, input,
                   parse_result>>
    /\ UNCHANGED agent_vars
    /\ UNCHANGED device_vars

RequestNext ==
    \/ \E n \in 0..Len(stream) : Fragment(n)
    \/ StreamError
    \/ StreamEnd

RequestSpec == RequestInit /\ [][RequestNext]_vars

(***************************************************************************)
(* Direct calls of parse_action: the texts of the calls and the call.      *)
(***************************************************************************)

\* The fixed parts of the call texts handed to parse_action.
Call ==
      \* do(action="Tap", element=[
    [ tap_open |-> <<"d", "o", "(", "a", "c", "t", "i", "o", "n", "=", "\"", "T", "a", "p",
            "\"", ",", " ", "e", "l", "e", "m", "e", "n", "t", "=", "[">>,
      \* do(action="Swipe", start=[
      swipe_open |-> <<"d", "o", "(", "a", "c", "t", "i", "o", "n", "=", "\"", "S", "w", "i",
            "p", "e", "\"", ",", " ", "s", "t", "a", "r", "t", "=", "[">>,
      \* ], end=[
      swipe_mid |-> <<"]", ",", " ", "e", "n", "d", "=", "[">>,
      \* ])
      array_close |-> <<"]", ")">>,
      \* finish(message="
      finish_open |-> <<"f", "i", "n", "i", "s", "h", "(", "m", "e", "s", "s", "a", "g", "e",
            "=", "\"">>,
      \* do(action="Type", text="
      type_open |-> <<"d", "o", "(", "a", "c", "t", "i", "o", "n", "=", "\"", "T", "y", "p",
            "e", "\"", ",", " ", "t", "e", "x", "t", "=", "\"">>,
      \* ")
      string_close |-> <<"\"", ")">>,
      \* ,
      comma |-> <<",">>,
      \* , 
      comma_space |-> <<",", " ">> ]

\* Calls with an argument named as the discriminator field.
Overrides ==
      \* do(action="Tap", _metadata="x")
    [ text |-> <<"d", "o", "(", "a", "c", "t", "i", "o", "n", "=", "\"", "T", "a", "p", "\"",
            ",", " ", "_", "m", "e", "t", "a", "d", "a", "t", "a", "=", "\"", "x", "\"", ")">>,
      \* do(_metadata=5, action="Back")
      number |-> <<"d", "o", "(", "_", "m", "e", "t", "a", "d", "a", "t", "a", "=", "5", ",",
            " ", "a", "c", "t", "i", "o", "n", "=", "\"", "B", "a", "c", "k", "\"", ")">>,
      \* finish(message="ok", _metadata="do")
      finish |-> <<"f", "i", "n", "i", "s", "h", "(", "m", "e", "s", "s", "a", "g", "e", "=",
            "\"", "o", "k", "\"", ",", " ", "_", "m", "e", "t", "a", "d", "a", "t", "a", "=",
            "\"", "d", "o", "\"", ")">> ]

\* The message texts of the finish calls: string bodies, the empty one among them.
Messages ==
      \* Task completed
    { <<"T", "a", "s", "k", " ", "c", "o", "m", "p", "l", "e", "t", "e", "d">>,
      \* ok
      <<"o", "k">>,
      \* (the empty text)
      <<>>,
      \* x=1, y
      <<"x", "=", "1", ",", " ", "y">>,
      \* (ok)
      <<"(", "o", "k", ")">>,
      \* see finish(message=
      <<"s", "e", "e", " ", "f", "i", "n", "i", "s", "h", "(", "m", "e", "s", "s", "a", "g", "e", "=">> }

\* The typed texts of the Type calls, with commas, quotes, brackets, parentheses,
\* the closing characters of the call, and a character of two bytes.
TypedTexts ==
      \* Hello World
    { <<"H", "e", "l", "l", "o", " ", "W", "o", "r", "l", "d">>,
      \* (the empty text)
      <<>>,
      \* a, b
      <<"a", ",", " ", "b">>,
      \* say "hi"
      <<"s", "a", "y", " ", "\"", "h", "i", "\"">>,
      \* [1, 2]
      <<"[", "1", ",", " ", "2", "]">>,
      \* f(x)
      <<"f", "(", "x", ")">>,
      \* ")
      <<"\"", ")">>,
      \* x") y
      <<"x", "\"", ")", " ", "y">>,
      \* U+00E9
      <<"U+00E9">>,
      \* text=1
      <<"t", "e", "x", "t", "=", "1">> }

\* The coordinates of the Tap calls and of the Swipe calls.
Coordinates == {0, 7, 10, 500, 999, 1000}

SwipeCoordinates == {0, 500, 1000}

\* The separators written between the two elements of an array.
Separators == {Call.comma, Call.comma_space}

RECURSIVE decimal(_)
\* The decimal text of a natural number.
decimal(n) ==
    LET digit == <<"0", "1", "2", "3", "4", "5", "6", "7", "8", "9">>[(n % 10) + 1]
    IN  IF n < 10 THEN <<digit>> ELSE Append(decimal(n \div 10), digit)

\* do(action="Tap", element=[x,y])
tap_call(x, y, sep) ==
    Call.tap_open \o decimal(x) \o sep \o decimal(y) \o Call.array_close

\* do(action="Swipe", start=[a,b], end=[c,d])
swipe_call(a, b, c, d, sep) ==
    Call.swipe_open \o decimal(a) \o sep \o decimal(b) \o Call.swipe_mid
        \o decimal(c) \o sep \o decimal(d) \o Call.array_close

\* finish(message="m")
finish_call(m) == Call.finish_open \o m \o Call.string_close

\* do(action="Type", text="x")
type_call(x) == Call.type_open \o x \o Call.string_close

\* Calls whose arguments are written bare: a non-finite number, a decimal number,
\* a negative integer, a boolean and a word.
Scalars ==
      \* do(action="Wait", duration=inf)
    [ infinite |-> <<"d", "o", "(", "a", "c", "t", "i", "o", "n", "=", "\"", "W", "a", "i",
            "t", "\"", ",", " ", "d", "u", "r", "a", "t", "i", "o", "n", "=", "i", "n", "f",
            ")">>,
      \* do(action="Wait", duration=1.5, count=-3, flag=True, mode=fast)
      plain |-> <<"d", "o", "(", "a", "c", "t", "i", "o", "n", "=", "\"", "W", "a", "i", "t",
            "\"", ",", " ", "d", "u", "r", "a", "t", "i", "o", "n", "=", "1", ".", "5", ",",
            " ", "c", "o", "u", "n", "t", "=", "-", "3", ",", " ", "f", "l", "a", "g", "=",
            "T", "r", "u", "e", ",", " ", "m", "o", "d", "e", "=", "f", "a", "s", "t", ")">> ]

\* Calls whose arguments hold delimiters (an array of arrays, an escaped quote
\* before a comma inside a string) and calls that lack their closing parenthesis.
Delimited ==
      \* do(action="Note", points=[[1,2],[3,4]], tag=5)
    [ nested |-> <<"d", "o", "(", "a", "c", "t", "i", "o", "n", "=", "\"", "N", "o", "t",
            "e", "\"", ",", " ", "p", "o", "i", "n", "t", "s", "=", "[", "[", "1", ",", "2",
            "]", ",", "[", "3", ",", "4", "]", "]", ",", " ", "t", "a", "g", "=", "5", ")">>,
      \* do(action="Note", message="a\",b", tag=5)
      escaped |-> <<"d", "o", "(", "a", "c", "t", "i", "o", "n", "=", "\"", "N", "o", "t",
            "e", "\"", ",", " ", "m", "e", "s", "s", "a", "g", "e", "=", "\"", "a", "\\",
            "\"", ",", "b", "\"", ",", " ", "t", "a", "g", "=", "5", ")">>,
      \* finish(message="abc
      unclosed_finish |-> <<"f", "i", "n", "i", "s", "h", "(", "m", "e", "s", "s", "a", "g",
            "e", "=", "\"", "a", "b", "c">>,
      \* do(action="Back"
      unclosed_do |-> <<"d", "o", "(", "a", "c", "t", "i", "o", "n", "=", "\"", "B", "a",
            "c", "k", "\"">> ]

\* Every text handed to parse_action: the calls above and the action text of every
\* response of the corpus.
ParserInputs ==
    {tap_call(x, y, sep) : x \in Coordinates, y \in Coordinates, sep \in Separators}
        \cup {swipe_call(q[1], q[2], q[3], q[4], sep) :
                  q \in SwipeCoordinates \X SwipeCoordinates \X SwipeCoordinates
                            \X SwipeCoordinates,
                  sep \in Separators}
        \cup {finish_call(m) : m \in Messages}
        \cup {type_call(x) : x \in TypedTexts}
        \cup {Overrides[name] : name \in DOMAIN Overrides}
        \cup {Scalars[name] : name \in DOMAIN Scalars}
        \cup {Delimited[name] : name \in DOMAIN Delimited}
        \cup {parse_response(Corpus[name])[2] : name \in DOMAIN Corpus}

\* A caller is about to hand a text to parse_action.  The agent is as constructed,
\* with the step budget out of play.
ParserInit ==
    /\ max_steps = 0
    /\ step_count = 0
    /\ context = <<>>
    /\ pc = "parse_action"
    /\ is_first = TRUE
    /\ response = NoResponse
    /\ action = <<>>
    /\ result = ActionResult_success
    /\ step_result = None
    /\ run_result = None
    /\ captures = 0
    /\ model_calls = 0
    /\ unfinished = 0
    /\ log = NoLog
    /\ caller = "none"
    /\ user_prompt = None
    /\ was_reset = FALSE
    /\ stream = <<>>
    /\ raw_content = <<>>
    /\ buffer = <<>>
    /\ in_action_phase = FALSE
    /\ stdout = <<>>
    /\ input \in ParserInputs
    /\ parse_result = None
    /\ lock = NoLock
    /\ selector = "Adb"
    /\ sessions = <<>>
    /\ configurer = "idle"
    /\ relative = <<0, 0>>
    /\ screen = <<0, 0>>
    /\ absolute = None

\* The call of parse_action: it returns a record or an error, or panics.
ParseAction ==
    /\ pc = "parse_action"
    /\ parse_result' = Some(parse_action(input))
    /\ pc' = IF parse_action(input).kind = "Panic" THEN "panicked" ELSE "parse_returned"
    /\ UNCHANGED <<response, stream, raw_content, buffer, in_action_phase, stdout, input>>
    /\ UNCHANGED agent_vars
    /\ UNCHANGED device_vars

ParserNext == ParseAction

ParserSpec == ParserInit /\ [][ParserNext]_vars

(***************************************************************************)
(* Coordinate conversion (ActionHandler::convert_relative_to_absolute).    *)
(*                                                                         *)
(* The code computes (e as f64 / 1000.0 * w as f64) as i32 in IEEE double  *)
(* arithmetic: the quotient e / 1000.0 is rounded, the product is rounded, *)
(* and the cast truncates.  For most pairs the result is the exact         *)
(* floor(e * w / 1000); for the pairs of RoundedBelow the rounded product  *)
(* lies just below the exact integer value and the cast yields one less.   *)
(***************************************************************************)

\* The pairs <<e, w>>, for e in 0..1000 and w a dimension of the screens of the
\* model (1, 100, 720, 1080 and 2400), where
\* e * w is a multiple of 1000 and the double product e / 1000.0 * w is smaller
\* than e * w / 1000 (0.29 * 100.0 is 28.999999999999996).
RoundedBelow ==
    { <<290, 100>>, <<570, 100>>, <<580, 100>>,
      <<175, 720>>, <<350, 720>>, <<575, 720>>, <<700, 720>>,
      <<205, 2400>>, <<285, 2400>>, <<345, 2400>>, <<410, 2400>>, <<565, 2400>>,
      <<570, 2400>>, <<690, 2400>>, <<695, 2400>>, <<815, 2400>>, <<820, 2400>> }

\* (e as f64 / 1000.0 * w as f64) as i32
scale(e, w) == (e * w) \div 1000 - (IF <<e, w>> \in RoundedBelow THEN 1 ELSE 0)

\* convert_relative_to_absolute with the bug of the axes exchanged (mutant).
convert_relative_to_absolute_exchanged(element, screen_width, screen_height) ==
    <<scale(element[1], screen_height), scale(element[2], screen_width)>>

convert_relative_to_absolute(element, screen_width, screen_height) ==
    <<scale(element[1], screen_width), scale(element[2], screen_height)>>

\* The y coordinates of the model; x ranges over the whole of 0..1000.
RelativeY == {0, 1, 290, 500, 820, 999, 1000}

\* The screens of the model, width and height: the default 1080 x 2400 of a
\* fallback screenshot, its rotation, two small screens and the smallest image.
Screens == {<<1080, 2400>>, <<2400, 1080>>, <<720, 100>>, <<100, 720>>, <<1, 1>>}

\* A handler is about to convert an element for a screen.  The agent is as
\* constructed, with the default step budget out of play.
ConvertInit ==
    /\ max_steps = 0
    /\ step_count = 0
    /\ context = <<>>
    /\ pc = "convert"
    /\ is_first = TRUE
    /\ response = NoResponse
    /\ action = <<>>
    /\ result = ActionResult_success
    /\ step_result = None
    /\ run_result = None
    /\ captures = 0
    /\ model_calls = 0
    /\ unfinished = 0
    /\ log = NoLog
    /\ caller = "none"
    /\ user_prompt = None
    /\ was_reset = FALSE
    /\ stream = <<>>
    /\ raw_content = <<>>
    /\ buffer = <<>>
    /\ in_action_phase = FALSE
    /\ stdout = <<>>
    /\ input = <<>>
    /\ parse_result = None
    /\ lock = NoLock
    /\ selector = "Adb"
    /\ sessions = <<>>
    /\ configurer = "idle"
    /\ relative \in (0..1000) \X RelativeY
    /\ screen \in Screens
    /\ absolute = None

\* The call of convert_relative_to_absolute.
Convert ==
    /\ pc = "convert"
    /\ absolute' = Some(convert_relative_to_absolute(relative, screen[1], screen[2]))
    /\ pc' = "converted"
    /\ UNCHANGED <<response, relative, screen, lock, selector, sessions, configurer>>
    /\ UNCHANGED agent_vars
    /\ UNCHANGED request_vars

ConvertNext == Convert

ConvertSpec == ConvertInit /\ [][ConvertNext]_vars

(***************************************************************************)
(* Device operations under the lock of the backend selector.               *)
(*                                                                         *)
(* DEVICE_FACTORY is one tokio RwLock for the process.  A handler or       *)
(* execute_step takes its read guard, makes its device calls and drops the *)
(* guard when it returns; set_device_type takes the write guard.  The lock *)
(* is fair: a request is granted at once when nobody waits and the lock is *)
(* free for its mode, and otherwise waits in a first-in first-out queue    *)
(* that is served whenever a guard is dropped.                             *)
(* Process 0 is the caller of set_device_type, the others are sessions.    *)
(*                                                                         *)
(* A session is a record:                                                  *)
(*   op      the operation it last invoked ("none" before the first)       *)
(*   at      "idle", "waiting" (for the guard), "calling" (inside a device *)
(*           call), "settling" (in the sleep after a call), "streaming"    *)
(*           (in the model request that follows the capture), "confirming" *)
(*           (in the confirmation or takeover callback) or "returned"      *)
(*   next    the index of its current call among the calls of op           *)
(*   ime     Option: the input method detect_and_set_adb_keyboard returned *)
(*   events  what the operation has done so far: the start of a call (with *)
(*           the input method handed to restore_keyboard), its return (with*)
(*           the input method returned) or error, and the end of a sleep   *)
(*   result  "none", "Ok" or "Err": what the operation returned            *)
(***************************************************************************)

\* The concurrent sessions of the model.
Sessions == {1, 2}

\* The device calls of an operation, in order: the capture of execute_step, a
\* handler with one call (handle_tap and its like), and handle_type.
Operations ==
    [capture |-> <<"get_screenshot", "get_current_app">>,
     tap |-> <<"tap">>,
     type |-> type_calls]

\* set_device_type_mode with the bug of a read guard (mutant).
set_device_type_mode_read == "read"

\* The guard set_device_type takes.
set_device_type_mode == "write"

\* execute_step with the bug of keeping the guard of the capture (mutant).
capture_guard_dropped_never == FALSE

\* `drop(factory)` after the two capture calls of execute_step: the guard of the
\* capture is dropped before the model is called.
capture_guard_dropped == TRUE

\* Whether the lock lk is free for a guard of mode m.
grantable(lk, m) == ~lk.writer /\ (m = "read" \/ lk.readers = {})

\* The session ses enters its current device call.
call_next(ses) ==
    LET call == Operations[ses.op][ses.next]
    IN  [ses EXCEPT !.at = "calling",
                    !.events = Append(@, [e |-> "start", call |-> call,
                                          ime |-> IF call = "restore_keyboard"
                                                  THEN ses.ime ELSE None])]

\* The lock lk after a guard was dropped: the permits pass to the waiters at the
\* head of the queue, in order, as far as the lock is free for their modes.
RECURSIVE drain(_)
drain(lk) ==
    LET p == Head(lk.queue)
        m == IF p = 0 THEN set_device_type_mode ELSE "read"
    IN  IF lk.queue = <<>> \/ ~grantable(lk, m) THEN lk
        ELSE IF m = "write"
        THEN drain([lk EXCEPT !.writer = TRUE, !.queue = Tail(@)])
        ELSE drain([lk EXCEPT !.readers = @ \cup {p}, !.queue = Tail(@)])

\* Whether the waiter p of the lock before has its guard in the lock after.
granted(p, before, after) ==
    /\ \E k \in DOMAIN before.queue : before.queue[k] = p
    /\ \A k \in DOMAIN after.queue : after.queue[k] # p

\* Sessions and the configurer are idle.  The agent is as constructed, with the
\* default step budget out of play.
DeviceInit ==
    /\ max_steps = 0
    /\ step_count = 0
    /\ context = <<>>
    /\ pc = "device"
    /\ is_first = TRUE
    /\ response = NoResponse
    /\ action = <<>>
    /\ result = ActionResult_success
    /\ step_result = None
    /\ run_result = None
    /\ captures = 0
    /\ model_calls = 0
    /\ unfinished = 0
    /\ log = NoLog
    /\ caller = "none"
    /\ user_prompt = None
    /\ was_reset = FALSE
    /\ stream = <<>>
    /\ raw_content = <<>>
    /\ buffer = <<>>
    /\ in_action_phase = FALSE
    /\ stdout = <<>>
    /\ input = <<>>
    /\ parse_result = None
    /\ lock = NoLock
    /\ selector = "Adb"
    /\ sessions = [s \in Sessions |->
                      [op |-> "none", at |-> "idle", next |-> 1, ime |-> None,
                       events |-> <<>>, result |-> "none"]]
    /\ configurer = "idle"
    /\ relative = <<0, 0>>
    /\ screen = <<0, 0>>
    /\ absolute = None

\* Session s dispatches a record whose handler calls a callback before any device
\* call: handle_tap with a message calls the confirmation callback, handle_takeover
\* the takeover callback.  No guard has been asked for.
Callback(s, op) ==
    /\ sessions[s].at \in {"idle", "returned"}
    /\ sessions' = [sessions EXCEPT ![s] =
                        [op |-> op, at |-> "confirming", next |-> 1, ime |-> None,
                         events |-> <<>>, result |-> "none"]]
    /\ UNCHANGED <<pc, response, lock, selector, configurer, relative, screen, absolute>>
    /\ UNCHANGED agent_vars
    /\ UNCHANGED request_vars

\* The callback of session s returns and the handler returns without a device
\* call: the confirmation was declined (a success = false outcome, returned as
\* Ok by handle_tap), or the takeover callback is done.
CallbackReturns(s) ==
    /\ sessions[s].at = "confirming"
    /\ sessions' = [sessions EXCEPT ![s].at = "returned", ![s].result = "Ok"]
    /\ UNCHANGED <<pc, response, lock, selector, configurer, relative, screen, absolute>>
    /\ UNCHANGED agent_vars
    /\ UNCHANGED request_vars

\* The model request of session s returns and its step goes on without the
\* device; a guard kept over the request is dropped as the step returns.
ModelReturns(s) ==
    /\ sessions[s].at = "streaming"
    /\ lock' = IF s \in lock.readers THEN drain([lock EXCEPT !.readers = @ \ {s}]) ELSE lock
    /\ sessions' =
           [t \in DOMAIN sessions |->
                IF t # s
                THEN IF granted(t, lock, lock') THEN call_next(sessions[t]) ELSE sessions[t]
                ELSE [sessions[s] EXCEPT !.at = "returned", !.result = "Ok"]]
    /\ configurer' = IF granted(0, lock, lock') THEN "locked" ELSE configurer
    /\ UNCHANGED <<pc, response, selector, relative, screen, absolute>>
    /\ UNCHANGED agent_vars
    /\ UNCHANGED request_vars

\* Session s invokes the operation op: `get_device_factory().read().await`.  The
\* guard is granted at once and the first call begins, or the session waits.  A
\* Tap whose confirmation was given asks for its guard only now.
Invoke(s, op) ==
    LET now == lock.queue = <<>> /\ grantable(lock, "read")
        ses == [op |-> op, at |-> "waiting", next |-> 1, ime |-> None,
                events |-> <<>>, result |-> "none"]
    IN  /\ \/ sessions[s].at \in {"idle", "returned"}
           \/ sessions[s].at = "confirming" /\ sessions[s].op = op /\ op = "tap"
        /\ lock' = IF now THEN [lock EXCEPT !.readers = @ \cup {s}]
                          ELSE [lock EXCEPT !.queue = Append(@, s)]
        /\ sessions' = [sessions EXCEPT ![s] = IF now THEN call_next(ses) ELSE ses]
        /\ UNCHANGED <<pc, response, selector, configurer, relative, screen, absolute>>
        /\ UNCHANGED agent_vars
        /\ UNCHANGED request_vars

\* The device call of session s returns: an error leaves the operation through
\* the ? operator and drops the guard; after a call of handle_type the sleep
\* begins; otherwise the next call begins, or the operation returns Ok and drops
\* the guard.  After the capture the step goes on to its model request.  ime is
\* the input method a keyboard switch reports.
CallReturn(s, ok, ime) ==
    LET ses == sessions[s]
        call == Operations[ses.op][ses.next]
        switched == ok /\ call = "detect_and_set_adb_keyboard"
        ret == [ses EXCEPT !.events = Append(@, [e |-> IF ok THEN "return" ELSE "error",
                                                 call |-> call,
                                                 ime |-> IF switched THEN Some(ime)
                                                                     ELSE None]),
                           !.ime = IF switched THEN Some(ime) ELSE @]
        finished == ~ok \/ (ses.op # "type" /\ ses.next = Len(Operations[ses.op]))
        captured == ok /\ finished /\ ses.op = "capture"
        dropped == finished /\ (captured => capture_guard_dropped)
    IN  /\ ses.at = "calling"
        /\ lock' = IF dropped THEN drain([lock EXCEPT !.readers = @ \ {s}]) ELSE lock
        /\ sessions' =
               [t \in DOMAIN sessions |->
                    IF t # s
                    THEN IF granted(t, lock, lock') THEN call_next(sessions[t])
                                                    ELSE sessions[t]
                    ELSE IF captured THEN [ret EXCEPT !.at = "streaming"]
                    ELSE IF finished
                    THEN [ret EXCEPT !.at = "returned",
                                     !.result = IF ok THEN "Ok" ELSE "Err"]
                    ELSE IF ses.op = "type" THEN [ret EXCEPT !.at = "settling"]
                    ELSE call_next([ret EXCEPT !.next = @ + 1])]
        /\ configurer' = IF granted(0, lock, lock') THEN "locked" ELSE configurer
        /\ UNCHANGED <<pc, response, selector, relative, screen, absolute>>
        /\ UNCHANGED agent_vars
        /\ UNCHANGED request_vars

\* The sleep after a call of handle_type ends: the next call begins, or after
\* the last one handle_type returns Ok and drops the guard.
Settle(s) ==
    LET ses == sessions[s]
        ret == [ses EXCEPT !.events = Append(@, [e |-> "settled",
                                                 call |-> Operations[ses.op][ses.next],
                                                 ime |-> None])]
        finished == ses.next = Len(Operations[ses.op])
    IN  /\ ses.at = "settling"
        /\ lock' = IF finished THEN drain([lock EXCEPT !.readers = @ \ {s}]) ELSE lock
        /\ sessions' =
               [t \in DOMAIN sessions |->
                    IF t # s
                    THEN IF granted(t, lock, lock') THEN call_next(sessions[t])
                                                    ELSE sessions[t]
                    ELSE IF finished
                    THEN [ret EXCEPT !.at = "returned", !.result = "Ok"]
                    ELSE call_next([ret EXCEPT !.next = @ + 1])]
        /\ configurer' = IF granted(0, lock, lock') THEN "locked" ELSE configurer
        /\ UNCHANGED <<pc, response, selector, relative, screen, absolute>>
        /\ UNCHANGED agent_vars
        /\ UNCHANGED request_vars

\* set_device_type up to its guard: `factory.write().await`.
SetDeviceType ==
    LET m == set_device_type_mode
        now == lock.queue = <<>> /\ grantable(lock, m)
    IN  /\ configurer = "idle"
        /\ lock' = IF ~now THEN [lock EXCEPT !.queue = Append(@, 0)]
                   ELSE IF m = "write" THEN [lock EXCEPT !.writer = TRUE]
                   ELSE [lock EXCEPT !.readers = @ \cup {0}]
        /\ configurer' = IF now THEN "locked" ELSE "waiting"
        /\ UNCHANGED <<pc, response, selector, sessions, relative, screen, absolute>>
        /\ UNCHANGED agent_vars
        /\ UNCHANGED request_vars

\* set_device_type with its guard: `*guard = DeviceFactory::new(device_type)`, and
\* the guard is dropped as the function returns: the sessions that waited begin
\* their first calls.  Adb is the only DeviceType.
Replace ==
    /\ configurer = "locked"
    /\ selector' = "Adb"
    /\ lock' = IF set_device_type_mode = "write"
               THEN drain([lock EXCEPT !.writer = FALSE])
               ELSE drain([lock EXCEPT !.readers = @ \ {0}])
    /\ sessions' = [t \in DOMAIN sessions |->
                        IF granted(t, lock, lock') THEN call_next(sessions[t])
                                                   ELSE sessions[t]]
    /\ configurer' = "idle"
    /\ UNCHANGED <<pc, response, relative, screen, absolute>>
    /\ UNCHANGED agent_vars
    /\ UNCHANGED request_vars

DeviceNext ==
    \/ \E s \in Sessions, op \in {"tap", "take_over"} : Callback(s, op)
    \/ \E s \in Sessions : CallbackReturns(s)
    \/ \E s \in Sessions, op \in DOMAIN Operations : Invoke(s, op)
    \/ \E s \in Sessions : ModelReturns(s)
    \/ \E s \in Sessions, ok \in BOOLEAN, ime \in {"gboard", "sogou"} :
           CallReturn(s, ok, ime)
    \/ \E s \in Sessions : Settle(s)
    \/ SetDeviceType
    \/ Replace

DeviceSpec == DeviceInit /\ [][DeviceNext]_vars

(***************************************************************************)
(* Properties.                                                             *)
(***************************************************************************)

\* What run returns for a final message.
Returned(message) == Some([kind |-> "Ok", message |-> message])

\* The step has been dispatched and execute_step has returned its StepResult.
Dispatched == log.exec = "Outcome"

\* The action name of the step's record ("" when it has none).
ActionName == or_empty(get_str(action, Key.action))

\* The step's record is a do record.
IsDo == get_str(action, Key.metadata) = Some(Kind.do)

\* The confirmation callback was invoked in the dispatch and returned false.
Declined == log.confirms # <<>> /\ ~log.confirms[1].answer

\* The number of steps run executes before it reports exhaustion: the first step
\* is executed whatever max_steps is.
StepBudget == IF max_steps = 0 THEN 1 ELSE max_steps

\* C1 as stated: for every max_steps >= 0 a run starts at most max_steps screen
\* captures and model calls, and it returns "Max steps reached" after exactly
\* max_steps unfinished steps.
C1_MaxStepsBudget ==
    /\ captures <= max_steps
    /\ model_calls <= max_steps
    /\ run_result = Returned(AgentMsg.MaxStepsReached) => unfinished = max_steps

\* C1 (amended): a run starts at most max(max_steps, 1) screen captures and model
\* calls (its first step runs whatever max_steps is); once that many steps have
\* returned unfinished the run has returned "Max steps reached", and it returns
\* that message only then.
C1_StepBudget ==
    /\ captures <= StepBudget
    /\ model_calls <= StepBudget
    /\ unfinished <= StepBudget
    /\ unfinished = StepBudget =>
         pc = "run_returned" /\ run_result = Returned(AgentMsg.MaxStepsReached)
    /\ run_result = Returned(AgentMsg.MaxStepsReached) => unfinished = StepBudget

\* A run with a budget of two steps that spent it: two model calls, both steps unfinished.
C1_Witness ==
    /\ max_steps = 2
    /\ unfinished = 2
    /\ model_calls = 2
    /\ run_result = Returned(AgentMsg.MaxStepsReached)

\* C2: a step whose model request fails returns a StepResult with success = false,
\* finished = true and the model error as its message; it dispatches nothing, the
\* request is made once (one request per step of the run), and run returns that
\* message without another step.
C2_ModelFailureEndsRun ==
    log.model = "error" =>
        /\ pc \in {"step_returned", "run_returned"}
        /\ step_result = Some([success |-> FALSE, finished |-> TRUE, action |-> None,
                               thinking |-> <<>>,
                               message |-> Some(AgentMsg.ModelError \o stream_error)])
        /\ log.exec = "none" /\ log.calls = <<>>
        /\ log.confirms = <<>> /\ log.takeovers = <<>>
        /\ model_calls = step_count
        /\ pc = "run_returned" => run_result = Returned(AgentMsg.ModelError \o stream_error)

\* The model request of the second step of a run failed and the run has returned.
C2_Witness ==
    /\ log.model = "error"
    /\ step_count = 2
    /\ pc = "run_returned"
    /\ run_result = Returned(AgentMsg.ModelError \o stream_error)

\* C3: when parse_action returns an error for the step's action text, the step's
\* record is a finish record whose message is the raw action text; no device
\* primitive and no callback is invoked, neither the parse nor the dispatch
\* aborts the step, the StepResult is finished with that message, and run returns
\* that message.
C3_ParseFailureFinishes ==
    log.parse = "Err" =>
        /\ pc \in {"dispatch", "step_returned", "run_returned"}
        /\ get_str(action, Key.metadata) = Some(Kind.finish)
        /\ get_str(action, Key.message) = Some(response.action)
        /\ log.calls = <<>> /\ log.confirms = <<>> /\ log.takeovers = <<>>
        /\ pc # "dispatch" =>
             /\ step_result # None
             /\ step_result[1].finished
             /\ step_result[1].message = Some(response.action)
        /\ pc = "run_returned" => run_result = Returned(response.action)

\* The unterminated text do(action= was parsed, dispatched, and ended the run.
C3_Witness ==
    /\ log.parse = "Err"
    /\ response.action = Corpus.unterminated
    /\ pc = "run_returned"
    /\ run_result = Returned(Corpus.unterminated)

\* C4: parse_action returns a record or an error value for every action text; it
\* never aborts the step.
C4_ParseActionReturns == log.parse # "Panic"

\* C5: the StepResult of a dispatched step is finished exactly when the record's
\* discriminator is finish or the outcome has should_finish.
C5_FinishedIff ==
    Dispatched =>
        /\ step_result # None
        /\ step_result[1].finished <=>
             (get_str(action, Key.metadata) = Some(Kind.finish) \/ result.should_finish)

\* A do record whose outcome has should_finish: the step is finished.
C5_Witness ==
    /\ Dispatched
    /\ IsDo
    /\ result.should_finish
    /\ step_result[1].finished

\* C6: when a Tap record carries a message and the confirmation callback returns
\* false, the outcome is success = false, should_finish = true with the
\* cancellation message, no device primitive is invoked, and the run ends on that
\* step with that message.
C6_DeclinedTap ==
    (log.exec # "none" /\ IsDo /\ ActionName = Name.Tap
        /\ get_str(action, Key.message) # None /\ Declined) =>
        /\ Dispatched
        /\ log.confirms = <<[message |-> get_str(action, Key.message)[1], answer |-> FALSE]>>
        /\ result = [success |-> FALSE, should_finish |-> TRUE,
                     message |-> Some(HandlerMsg.UserCancelled),
                     requires_confirmation |-> FALSE]
        /\ log.calls = <<>>
        /\ pc \in {"step_returned", "run_returned"}
        /\ step_result[1].finished /\ ~step_result[1].success
        /\ pc = "run_returned" => run_result = Returned(HandlerMsg.UserCancelled)

\* A sensitive Tap was declined and the run has returned.
C6_Witness ==
    /\ Dispatched /\ IsDo /\ ActionName = Name.Tap /\ Declined
    /\ pc = "run_returned"

\* C7, for the records with valid coordinates: a Double Tap or Long Press record
\* that carries a message makes the dispatcher invoke the confirmation callback
\* with that message, and when the callback returns false no device primitive is
\* invoked and the outcome is success = false, should_finish = true.
C7_ConfirmsDoubleTapLongPress ==
    (log.exec # "none" /\ IsDo /\ ActionName \in {Name.Double_Tap, Name.Long_Press}
        /\ get_str(action, Key.message) # None
        /\ Len(coords_of(or_empty(get_array(action, Key.element)))) >= 2) =>
        /\ log.confirms # <<>>
        /\ log.confirms[1].message = get_str(action, Key.message)[1]
        /\ Declined => log.calls = <<>> /\ ~result.success /\ result.should_finish

\* C8: every dispatch returns an ActionOutcome, and a failing device call gives the
\* outcome success = false, should_finish = false with the error's description.
C8_ExecuteReturns ==
    /\ log.exec # "Panic"
    /\ log.device_failed =>
         result = ActionResult_failure(HandlerMsg.ActionFailed \o device_error)

\* C9, for the runs that return a message: a dispatched do record that does not
\* succeed, other than by a declined confirmation, gives a StepResult with
\* success = false and finished = false, after which run goes on unless the step
\* budget is spent; and a run returns before the budget is spent only after a
\* model failure, a declined confirmation or a finish record (parsed, or made
\* from a text that failed to parse).
C9_FailedActionContinues ==
    /\ (log.exec # "none" /\ IsDo /\ ~Declined /\ ~(Dispatched /\ result.success)) =>
         /\ Dispatched
         /\ step_result # None
         /\ ~step_result[1].success /\ ~step_result[1].finished
         /\ pc = "run_returned" => step_count >= max_steps
    /\ (pc = "run_returned" /\ run_result # None /\ run_result[1].kind = "Ok"
           /\ step_count < max_steps) =>
         \/ log.model = "error"
         \/ Dispatched /\ Declined
         \/ Dispatched /\ get_str(action, Key.metadata) = Some(Kind.finish)

\* C10: when the screenshot or the foreground-app query of a step fails, run
\* returns that error; the step appends no turn, makes no model request (every
\* earlier step of the run made one) and dispatches nothing.
C10_CaptureErrorAborts ==
    log.capture \in {"screenshot_failed", "current_app_failed"} =>
        /\ pc = "run_returned"
        /\ run_result = Some([kind |-> "Err", message |-> device_error])
        /\ step_result = None
        /\ Len(context) = log.entry
        /\ \A i \in DOMAIN context : ~context[i].image
        /\ log.model = "none" /\ log.parse = "none" /\ log.exec = "none"
        /\ log.calls = <<>> /\ log.confirms = <<>> /\ log.takeovers = <<>>
        /\ model_calls = step_count - 1

\* The foreground-app query of the second step of a run failed.
C10_Witness ==
    /\ log.capture = "current_app_failed"
    /\ step_count = 2
    /\ Len(context) = 3
    /\ pc = "run_returned"

(***************************************************************************)
(* Properties of one model request.                                        *)
(***************************************************************************)

\* The stream has ended and request has returned its response.
RequestReturned == pc = "request_returned"

\* The positions of a text at which a marker begins.
MarkerPositions(text) ==
    UNION {occurrences(text, action_markers[m]) : m \in 1..Len(action_markers)}

\* The text before the earliest marker of a text that holds one, and the text from
\* that marker on.
BeforeFirstMarker(text) == SubSeq(text, 1, MinOf(MarkerPositions(text)) - 1)

FromFirstMarker(text) == SubSeq(text, MinOf(MarkerPositions(text)), Len(text))

\* What the observer has been shown of the streamed text: everything printed, but
\* for the line end that closes the thinking text when the action phase begins.
Emitted == IF in_action_phase THEN SubSeq(stdout, 1, Len(stdout) - 1) ELSE stdout

\* core is text without some white space at its two ends.
Padded(text, core) ==
    \E i \in 1..(Len(text) + 1) :
        /\ i + Len(core) - 1 <= Len(text)
        /\ SubSeq(text, i, i + Len(core) - 1) = core
        /\ \A k \in DOMAIN text : (k < i \/ k > i + Len(core) - 1) => text[k] \in WhiteSpace

\* C11: when the streamed text holds one or more markers, of either kind and in
\* either order, the response is split at the earliest of them: action_text is
\* the text from that occurrence on and thinking the text before it (leaving
\* aside the white space around the thinking text, which is C15's subject).
C11_SplitAtEarliestMarker ==
    (RequestReturned /\ MarkerPositions(raw_content) # {}) =>
        /\ response.action = FromFirstMarker(raw_content)
        /\ Padded(BeforeFirstMarker(raw_content), response.thinking)

\* C12: whatever the fragments a text arrives in, the split is the one made when
\* it arrives as a single fragment: the same text is shown to the observer, and
\* in a text with do(action= the action text is the text from that marker on.
C12_SplitIndependentOfFragments ==
    RequestReturned =>
        /\ stdout = on_content(stream_start, raw_content).stdout
        /\ contains(raw_content, Prefix.do_action) =>
               response.action =
                   SubSeq(raw_content, find(raw_content, Prefix.do_action), Len(raw_content))

\* C13: in a stream that holds a marker, whatever its fragments: until the marker
\* is seen every character that has arrived is either shown or held in the buffer,
\* once and in order, and a buffer ending with the beginning of a marker is held;
\* from the moment the marker is seen the text shown is exactly the text before
\* the first marker of the stream, and nothing is added to it.
C13_EmittedIsTextBeforeMarker ==
    (pc = "request" /\ MarkerPositions(raw_content \o stream) # {}) =>
        /\ in_action_phase => Emitted = BeforeFirstMarker(raw_content \o stream)
        /\ ~in_action_phase => Emitted \o buffer = raw_content
        /\ (~in_action_phase /\ ~is_potential_marker(buffer)) => buffer = <<>>

\* The position of raw_content at which the action text of the response begins:
\* the action text is the end of raw_content, or it lies after the <answer> tag.
ActionStart ==
    IF ends_with(raw_content, response.action)
    THEN Len(raw_content) - Len(response.action) + 1
    ELSE find(raw_content, Tag.answer_open) + Len(Tag.answer_open)

\* C14: in every stream, with or without a marker, the text shown to the observer
\* while the stream arrives ends before the action text of the response begins.
C14_ActionTextNotEmitted ==
    RequestReturned => Len(Emitted) < ActionStart

\* C15 as stated: when a marker was found, raw_content is thinking followed by
\* action_text, white space next to the marker included.
C15_RawIsThinkingThenAction ==
    (RequestReturned /\ MarkerPositions(raw_content) # {}) =>
        raw_content = response.thinking \o response.action

\* C15, amended: when a marker was found, raw_content ends with action_text, and
\* the text before it is thinking with white space at its two ends: only white
\* space around the thinking text is lost, nothing is added or reordered.
C15_RawIsPaddedThinkingThenAction ==
    (RequestReturned /\ MarkerPositions(raw_content) # {}) =>
        /\ ends_with(raw_content, response.action)
        /\ Padded(SubSeq(raw_content, 1, Len(raw_content) - Len(response.action)),
                  response.thinking)

\* A stream with a marker has ended, and white space before the marker was
\* trimmed off the thinking text.
C15_Witness ==
    /\ RequestReturned
    /\ MarkerPositions(raw_content) # {}
    /\ response.thinking # <<>>
    /\ raw_content # response.thinking \o response.action

\* C16 as stated: without a marker, the response to an answer envelope has the
\* text before <answer> as thinking and the text between <answer> and </answer>
\* as action_text; the response to a text with neither marker nor tag has empty
\* thinking and the whole text as action_text.
C16_FallbackSplit ==
    (RequestReturned /\ MarkerPositions(raw_content) = {}) =>
        /\ \A p \in EnvelopeParts :
               raw_content = envelope(p) =>
                   /\ response.thinking = Tag.think_open \o p.thought \o Tag.think_close
                   /\ response.action = p.inside
        /\ ~contains(raw_content, Tag.answer_open) =>
               (response.thinking = <<>> /\ response.action = raw_content)

\* C16, amended: without a marker, the response to an answer envelope has as
\* thinking the text before <answer> without the think tags and without white
\* space around it, and as action_text the text after <answer> without the
\* </answer> tag and without white space around it; the response to a text with
\* neither marker nor tag has empty thinking and the whole text as action_text.
C16_FallbackSplitTrimmed ==
    (RequestReturned /\ MarkerPositions(raw_content) = {}) =>
        /\ \A p \in EnvelopeParts :
               raw_content = envelope(p) =>
                   /\ response.thinking = trim(p.thought)
                   /\ response.action = trim(p.inside \o p.tail)
        /\ ~contains(raw_content, Tag.answer_open) =>
               (response.thinking = <<>> /\ response.action = raw_content)

\* A stream without a marker has ended whose text is an answer envelope with
\* white space inside its tags and text after them.
C16_Witness ==
    /\ RequestReturned
    /\ \E p \in EnvelopeParts :
           /\ raw_content = envelope(p)
           /\ p.tail # <<>>
           /\ p.thought # trim(p.thought)
           /\ response.action = trim(p.inside \o p.tail)

(***************************************************************************)
(* Properties of parse_action.                                             *)
(***************************************************************************)

\* parse_action has returned a record.
ParsedRecord == pc = "parse_returned" /\ parse_result[1].kind = "Ok"

\* The record with the given discriminator and the given further fields.
RecordOf(kind, fields) ==
    [k \in {Key.metadata} \cup DOMAIN fields |->
        IF k = Key.metadata THEN VStr(kind) ELSE fields[k]]

\* The array value of two integers.
Pair(x, y) == VArr(<<VInt(x), VInt(y)>>)

\* C17: every record parse_action returns has the discriminator field, and the
\* value of the field is do or finish, whatever the arguments of the call are.
C17_DiscriminatorDoOrFinish ==
    ParsedRecord =>
        /\ Key.metadata \in DOMAIN parse_result[1].value
        /\ parse_result[1].value[Key.metadata] \in {VStr(Kind.do), VStr(Kind.finish)}

\* C18: for coordinates between 0 and 1000, written with or without a space
\* after the comma, the Tap call parses into the do record with action Tap and
\* the element array of the two integers, and the Swipe call into the do record
\* with action Swipe and the start and end arrays of the integers, and no other
\* field.
C18_TapAndSwipeArrays ==
    /\ \A x, y \in Coordinates, sep \in Separators :
           (pc # "parse_action" /\ input = tap_call(x, y, sep)) =>
               parse_result =
                   Some(Ok(RecordOf(Kind.do, (Key.action :> VStr(Name.Tap))
                                                 @@ (Key.element :> Pair(x, y)))))
    /\ \A a, b, c, d \in SwipeCoordinates, sep \in Separators :
           (pc # "parse_action" /\ input = swipe_call(a, b, c, d, sep)) =>
               parse_result =
                   Some(Ok(RecordOf(Kind.do, (Key.action :> VStr(Name.Swipe))
                                                 @@ (Key.start :> Pair(a, b))
                                                 @@ (Key.end :> Pair(c, d)))))

\* A Swipe call with four different numbers of digits apart has been parsed.
C18_Witness ==
    /\ ParsedRecord
    /\ input = swipe_call(0, 500, 1000, 500, Call.comma)
    /\ parse_result[1].value[Key.end] = Pair(1000, 500)

\* C19: for every message text, the finish call with that message parses into
\* the finish record whose message is exactly that text.
C19_FinishMessage ==
    \A m \in Messages :
        (pc # "parse_action" /\ input = finish_call(m)) =>
            parse_result = Some(Ok(RecordOf(Kind.finish, Key.message :> VStr(m))))

\* C20: for every typed text, with commas, quotes, brackets or parentheses in it,
\* the Type call with that text parses into the do record with action Type whose
\* text field is exactly that text.
C20_TypedText ==
    \A x \in TypedTexts :
        (pc # "parse_action" /\ input = type_call(x)) =>
            parse_result =
                Some(Ok(RecordOf(Kind.do, (Key.action :> VStr(Name.Type))
                                              @@ (Key.text :> VStr(x)))))

\* A Type call has been parsed whose text holds the two characters that close the
\* call, followed by more text.
C20_Witness ==
    /\ ParsedRecord
    /\ \E x \in TypedTexts :
           /\ input = type_call(x)
           /\ occurrences(x, Call.string_close) # {}
           /\ ~ends_with(x, Call.string_close)
           /\ parse_result[1].value[Key.text] = VStr(x)

\* The action names of the dispatch table.
DispatchTable == {Name[n] : n \in DOMAIN Name}

\* The step's record is a do record that names an action outside the dispatch table.
UnknownAction ==
    /\ IsDo
    /\ get_str(action, Key.action) # None
    /\ ActionName \notin DispatchTable

\* C21: a do record whose action name is not in the dispatch table is accepted by
\* the parser with the name as written in the text; its dispatch returns the
\* failure outcome that names the unknown action, with should_finish = false,
\* invokes no device primitive and no callback, and does not end the run: the
\* step returns finished = false and the run goes on to its step budget.
C21_UnknownActionFails ==
    (log.exec # "none" /\ log.parse = "Ok" /\ UnknownAction) =>
        /\ parse_action(response.action).kind = "Ok"
        /\ contains(response.action,
                    Key.action \o <<"=", "\"">> \o ActionName \o <<"\"">>)
        /\ Dispatched
        /\ ~result.success
        /\ ~result.should_finish
        /\ result.message =
               Some(HandlerMsg.ActionFailed
                        \o CommandFailed(HandlerMsg.UnknownAction \o ActionName))
        /\ log.calls = <<>> /\ log.confirms = <<>> /\ log.takeovers = <<>>
        /\ step_result # None /\ ~step_result[1].finished /\ ~step_result[1].success
        /\ pc = "run_returned" => run_result = Returned(AgentMsg.MaxStepsReached)

\* A record with an unknown action name has been dispatched in a step after which
\* the run went on to another step.
C21_Witness ==
    /\ Dispatched /\ log.parse = "Ok" /\ UnknownAction
    /\ ActionName = <<"F", "l", "y">>
    /\ unfinished >= 1
    /\ step_count >= 2

\* C22: the dispatch of a record whose discriminator is finish returns
\* succeeded = true, should_finish = true and the record's message, whatever
\* other fields the record holds (an action field included), and invokes no
\* device primitive and no confirmation or takeover callback.
C22_FinishShortCircuits ==
    (log.exec # "none" /\ get_str(action, Key.metadata) = Some(Kind.finish)) =>
        /\ Dispatched
        /\ result.success
        /\ result.should_finish
        /\ result.message = get_str(action, Key.message)
        /\ log.calls = <<>> /\ log.confirms = <<>> /\ log.takeovers = <<>>

\* A finish record that holds the action field of a sensitive Tap, with its
\* element and message, has been dispatched.
C22_Witness ==
    /\ Dispatched
    /\ get_str(action, Key.metadata) = Some(Kind.finish)
    /\ get_str(action, Key.action) = Some(Name.Tap)
    /\ get_array(action, Key.element) # None
    /\ result.message = Some(<<"p", "a", "y">>)

\* The task in progress is over: a step of it has returned, and that step was
\* finished or left the step counter at max_steps or beyond.
TaskOver ==
    /\ step_result # None
    /\ step_result[1].finished \/ step_count >= max_steps

\* C29: Finished and Exhausted are terminal for a task.  Once a step has returned
\* finished = true, or the step counter has reached max_steps, the agent starts
\* no further step of that task: from such a state execute_step is entered only
\* by run, which starts a new task (reset leads to no step at all).  This holds
\* for a caller of run and for a caller of step.
C29_TerminalStates ==
    [][(TaskOver /\ pc' = "execute_step") =>
           (caller' = "run" /\ context' = <<>> /\ step_count' = 0)]_vars

\* C30: a call of step without a task while the context is empty returns the
\* missing-task error and changes nothing of the agent: the step counter and the
\* context keep their values and no capture, model call or device action is
\* made.  While the context is not empty, step needs no task: a call without
\* one goes on to execute_step.
C30_TaskRequiredOnce ==
    [][(AtCaller /\ (pc' = "step_rejected" \/ (pc' = "execute_step" /\ caller' = "step"))) =>
           /\ (context = <<>> /\ pc' = "execute_step") => user_prompt' # None
           /\ pc' = "step_rejected" =>
                  /\ context = <<>>
                  /\ UNCHANGED <<max_steps, step_count, context, captures, model_calls,
                                 log, step_result, run_result>>
           /\ context # <<>> => pc' = "execute_step"]_vars

\* step has returned the missing-task error to a caller whose first step failed
\* in its capture, so that the counter is 1 and the context still empty.
C30_Witness ==
    /\ pc = "step_rejected"
    /\ context = <<>>
    /\ step_count = 1
    /\ captures = 1
    /\ model_calls = 0

\* C25: after reset and at the start of every run the context is empty and the
\* step counter is 0, while the configuration keeps its value (no action changes
\* max_steps); a task run after reset behaves as a first task: its first step
\* appends the system turn and the user turn to the empty context.
C25_ResetStartsAfresh ==
    /\ [](pc = "idle" => (context = <<>> /\ step_count = 0))
    /\ []((pc = "execute_step" /\ caller = "run" /\ is_first) =>
              (context = <<>> /\ step_count = 0))
    /\ []((pc = "model_request" /\ caller = "run" /\ step_count = 1) =>
              context = <<system_message, user_message>>)
    /\ [][max_steps' = max_steps]_vars

\* After steps of an earlier task and a reset, the first step of a run has made
\* its capture: the context holds the system turn and the first user turn.
C25_Witness ==
    /\ was_reset
    /\ pc = "model_request"
    /\ caller = "run"
    /\ step_count = 1
    /\ context = <<system_message, user_message>>

(***************************************************************************)
(* Properties of the coordinate conversion.                                *)
(***************************************************************************)

\* C27: for every screen dimension W and normalized coordinates in [0, 1000]:
\* 0 converts to 0 and 1000 converts to W, the conversion is non-decreasing in
\* the coordinate for a fixed W, x is converted with the width alone and y with
\* the height alone, and every pixel lies in [0, W].
C27_ConvertInRange ==
    absolute # None =>
        LET px == absolute[1][1]
            py == absolute[1][2]
            w == screen[1]
            h == screen[2]
        IN  /\ relative[1] = 0 => px = 0
            /\ relative[2] = 0 => py = 0
            /\ relative[1] = 1000 => px = w
            /\ relative[2] = 1000 => py = h
            /\ 0 <= px /\ px <= w
            /\ 0 <= py /\ py <= h
            /\ relative[1] > 0 =>
                   convert_relative_to_absolute(<<relative[1] - 1, relative[2]>>, w, h)[1]
                       <= px
            /\ relative[2] > 0 =>
                   convert_relative_to_absolute(<<relative[1], relative[2] - 1>>, w, h)[2]
                       <= py
            /\ \A y \in RelativeY, s \in Screens :
                   convert_relative_to_absolute(<<relative[1], y>>, w, s[2])[1] = px
            /\ \A x \in RelativeY, s \in Screens :
                   convert_relative_to_absolute(<<x, relative[2]>>, s[1], h)[2] = py

\* The far corner of a screen that is taller than wide has been converted: x has
\* become the width and y the height.
C27_Witness ==
    /\ absolute = Some(<<1080, 2400>>)
    /\ relative = <<1000, 1000>>
    /\ screen = <<1080, 2400>>

(***************************************************************************)
(* Properties of the device operations.                                    *)
(***************************************************************************)

\* One device call of handle_type as it shows in the events of a session: its
\* start (with the input method handed over), its return (with the input method
\* returned) and the end of the sleep that follows it.
CallEvents(call, given, returned) ==
    <<[e |-> "start", call |-> call, ime |-> given],
      [e |-> "return", call |-> call, ime |-> returned],
      [e |-> "settled", call |-> call, ime |-> None]>>

\* The events of a handle_type whose keyboard switch returned the input method i.
TypeChoreography(i) ==
    CallEvents("detect_and_set_adb_keyboard", None, Some(i))
        \o CallEvents("clear_text", None, None)
        \o CallEvents("type_text", None, None)
        \o CallEvents("restore_keyboard", Some(i), None)

\* C23: a successful Type dispatch issues its device calls in exactly this order,
\* each started only after the one before has returned and its settling delay
\* has elapsed: the switch to the automation keyboard, the clearing of the
\* field, the injection of the text, the restore; and the restore call receives
\* exactly the input method the switch call returned.  While the dispatch is
\* under way, what it has done is a beginning of that sequence, up to a call
\* that fails.
C23_TypeChoreography ==
    \A s \in DOMAIN sessions :
        LET ses == sessions[s]
            full == TypeChoreography(ses.ime[1])
        IN  (ses.op = "type" /\ ses.ime # None) =>
                /\ Len(ses.events) <= Len(full)
                /\ \A k \in 1..Len(ses.events) :
                       \/ ses.events[k] = full[k]
                       \/ k = Len(ses.events) /\ ses.events[k].e = "error"
                /\ ses.result = "Ok" => ses.events = full

\* A Type dispatch has returned Ok after a keyboard switch that reported sogou,
\* while the other session was inside a device call of its own.
C23_Witness ==
    \E s \in DOMAIN sessions, t \in DOMAIN sessions :
        /\ s # t
        /\ sessions[s].op = "type"
        /\ sessions[s].result = "Ok"
        /\ sessions[s].ime = Some("sogou")
        /\ Len(sessions[s].events) = 12
        /\ sessions[t].at = "calling"

\* C24: whenever a Type dispatch has switched the input method (its first device
\* call returned), a restore is attempted before the dispatch returns, on every
\* path, including the paths where the clearing or the injection fails.
C24_RestoreAlwaysAttempted ==
    (Dispatched /\ IsDo /\ ActionName \in {Name.Type, Name.Type_Name}
        /\ Len(log.calls) >= 2) =>
        \E k \in DOMAIN log.calls : log.calls[k] = "restore_keyboard"

\* C26: every device operation runs only while its session holds a read guard of
\* the backend selector; set_device_type replaces the selector only while it
\* holds the write guard, alone; no device operation overlaps a reconfiguration;
\* and a session waits for its guard only while a reconfiguration is in
\* progress, never for another session.
C26_SelectorLock ==
    /\ \A s \in DOMAIN sessions :
           /\ sessions[s].at \in {"calling", "settling"} => s \in lock.readers
           /\ sessions[s].at = "waiting" => configurer \in {"waiting", "locked"}
    /\ configurer = "locked" =>
           /\ lock.writer
           /\ lock.readers = {}
           /\ \A s \in DOMAIN sessions : sessions[s].at \notin {"calling", "settling"}

\* Both sessions are inside a device call at once, each with its read guard,
\* while set_device_type waits for them.
C26_Witness ==
    /\ DOMAIN sessions = Sessions
    /\ \A s \in Sessions : sessions[s].at = "calling" /\ s \in lock.readers
    /\ configurer = "waiting"

\* The texts of a sequence of texts joined by ", ".
RECURSIVE Joined(_)
Joined(texts) ==
    IF texts = <<>> THEN <<>>
    ELSE IF Len(texts) = 1 THEN texts[1]
    ELSE texts[1] \o <<",", " ">> \o Joined(Tail(texts))

\* A scalar value or an array element as an argument text: a string in double
\* quotes, a number or a boolean bare, null as the word null.
ScalarText(v) ==
    CASE v.t = "string" -> <<"\"">> \o v.s \o <<"\"">>
      [] v.t = "integer" -> IF v.n < 0 THEN <<"-">> \o decimal(0 - v.n) ELSE decimal(v.n)
      [] v.t = "float" -> v.s
      [] v.t = "bool" -> IF v.n = 1 THEN BoolLiteral.t1 ELSE BoolLiteral.f1
      [] OTHER -> <<"n", "u", "l", "l">>

\* A value as an argument text: an array in brackets, anything else as a scalar.
ValueText(v) ==
    IF v.t = "array"
    THEN <<"[">> \o Joined([i \in DOMAIN v.a |-> ScalarText(v.a[i])]) \o <<"]">>
    ELSE ScalarText(v)

\* The fields in keys of the record r as arguments key=value, in some order.
RECURSIVE Arguments(_, _)
Arguments(r, keys) ==
    IF keys = {} THEN <<>>
    ELSE LET k == CHOOSE x \in keys : TRUE
         IN  <<k \o <<"=">> \o ValueText(r[k])>> \o Arguments(r, keys \ {k})

\* The record r, whose discriminator is the text do or finish, written as a call:
\* the discriminator as the name of the call, then for a do record the action
\* first and the other fields after it, for a finish record its fields.
Serialized(r) ==
    LET kind == r[Key.metadata].s
        first == IF kind = Kind.do /\ Key.action \in DOMAIN r THEN {Key.action} ELSE {}
    IN  kind \o <<"(">>
            \o Joined(Arguments(r, first)
                          \o Arguments(r, DOMAIN r \ ({Key.metadata} \cup first)))
            \o <<")">>

\* C28: for every record R that parse_action produces from a text, writing the
\* fields of R as a call (strings quoted, arrays bracketed, scalars bare) and
\* parsing that call yields a record equal to R in every field.
C28_RoundTrip ==
    (ParsedRecord
        /\ parse_result[1].value[Key.metadata] \in {VStr(Kind.do), VStr(Kind.finish)}) =>
        parse_action(Serialized(parse_result[1].value)) = Ok(parse_result[1].value)

(***************************************************************************)
(* Properties of the step: its phases, its context and its envelopes.      *)
(***************************************************************************)

\* C31: with collaborators that always return, every call to run returns, after
\* at most max_steps steps (one step when max_steps is 0), with a final message
\* or with the capture error of its last step, and no run goes on forever: the
\* step counter of a run is bounded, a run that has not returned can always take
\* its next step, and a run that has returned holds its result.
C31_RunReturns ==
    /\ step_count <= StepBudget
    /\ (caller = "run" /\ pc # "run_returned") => ENABLED Next
    /\ pc = "run_returned" =>
           /\ run_result # None
           /\ run_result[1].kind = "Err" => log.capture # "ok"

\* C32: within every step the phases are strictly sequential.  The model call
\* starts only after the screen capture has completed; a device action or a
\* callback is invoked only after the model stream has ended and its action text
\* has been parsed; a step dispatches at most one record and the dispatch
\* produces exactly one ActionOutcome; and a step starts only after the step
\* before it has returned.
C32_PhasesSequential ==
    /\ log.model # "none" => log.capture = "ok"
    /\ log.parse # "none" => log.model = "ok"
    /\ (log.exec # "none" \/ log.calls # <<>> \/ log.confirms # <<>>
            \/ log.takeovers # <<>>) => log.parse \in {"Ok", "Err"}
    /\ log.exec # "none" => log.exec = "Outcome"
    /\ (pc = "execute_step" /\ step_count > 0) => step_result # None

\* The turns of the context that hold an image.
Images == {i \in DOMAIN context : context[i].image}

\* C35: whenever a step has returned, with any result, the model-failure
\* StepResult included, no turn of the context holds an image; an image is held
\* only by the last turn, a user turn, and only while the model call of the step
\* is in flight, so that the context never holds more than one image.
C35_NoImageKept ==
    /\ pc \in {"step_returned", "run_returned", "step_failed"} => Images = {}
    /\ \A i \in Images :
           /\ i = Len(context)
           /\ context[i].role = "user"
           /\ pc = "model_request"
    /\ Cardinality(Images) <= 1

\* The text between <answer> and </answer> in raw ("" when a tag is missing).
Enclosed(raw) ==
    LET a == find(raw, Tag.answer_open)
        b == find(raw, Tag.answer_close)
    IN  IF a = 0 \/ b = 0 THEN <<>> ELSE SubSeq(raw, a + Len(Tag.answer_open), b - 1)

\* C36: when the model's response wraps a well-formed call in the answer
\* envelope, the action_text of the step is exactly the enclosed call, the
\* step's record is the record of that call, and the step dispatches it instead
\* of a synthesized finish.
C36_AnswerEnvelope ==
    (log.model = "ok" /\ contains(response.raw_content, Tag.answer_open)
        /\ parse_action(Enclosed(response.raw_content)).kind = "Ok") =>
        /\ response.action = Enclosed(response.raw_content)
        /\ log.parse = "Ok"
        /\ pc # "model_request" =>
               action = parse_action(Enclosed(response.raw_content)).value

\* C39: the dispatch of a Note, Call_API, Interact, Take_over or Wait record
\* invokes no device primitive and returns succeeded = true, should_finish =
\* false.  Interact carries the fixed message, Take_over invokes the takeover
\* callback exactly once with the record's message (or the default) and never
\* the confirmation callback, and Note and Call_API carry no message.
C39_NoDeviceActions ==
    (log.exec # "none" /\ IsDo
        /\ ActionName \in {Name.Note, Name.Call_API, Name.Interact, Name.Take_over,
                           Name.Wait}) =>
        /\ Dispatched
        /\ log.calls = <<>>
        /\ result.success /\ ~result.should_finish
        /\ ActionName = Name.Interact =>
               result.message = Some(HandlerMsg.UserInteraction)
        /\ ActionName = Name.Take_over =>
               /\ log.takeovers =
                      <<IF get_str(action, Key.message) = None
                        THEN HandlerMsg.UserIntervention
                        ELSE get_str(action, Key.message)[1]>>
               /\ log.confirms = <<>>
        /\ ActionName # Name.Take_over => log.takeovers = <<>>
        /\ ActionName \in {Name.Note, Name.Call_API} => result.message = None

(***************************************************************************)
(* Properties of the step counter and of the context under run, step and   *)
(* reset.                                                                  *)
(***************************************************************************)

\* C33: the step counter grows by exactly one in every executed step iteration,
\* whatever becomes of the step (capture error, model failure, parse failure or
\* dispatch); it never decreases within a task and is set to 0 only by run and
\* by reset; during a run it equals the number of steps started in that run.
C33_StepCounter ==
    /\ [][/\ (pc = "execute_step" /\ pc' # "execute_step") =>
                 step_count' = step_count + 1
          /\ step_count' # step_count =>
                 \/ pc = "execute_step" /\ step_count' = step_count + 1
                 \/ /\ step_count' = 0
                    /\ AtCaller
                    /\ context' = <<>>
                    /\ \/ pc' = "idle"
                       \/ pc' = "execute_step" /\ caller' = "run"]_vars
    /\ [](caller = "run" => step_count = captures)
    /\ [](model_calls <= step_count)

\* Three steps have been started since run was called, by run and then by step:
\* one failed in its capture and the last one in its model request, and each
\* has been counted.
C33_Witness ==
    /\ caller = "step"
    /\ pc = "step_returned"
    /\ log.model = "error"
    /\ step_count = 3
    /\ captures = 3
    /\ model_calls = 2

\* The turn at position i of a well-formed context.
TurnRole(i) == IF i = 1 THEN "system" ELSE IF i % 2 = 0 THEN "user" ELSE "assistant"

\* C34: after any sequence of calls of run, step and reset the context is empty
\* or is one system turn followed by strictly alternating user and assistant
\* turns, the user turn first.  Between two resets it changes only by appending
\* turns and by stripping the image of its last user turn, and a step that
\* reached dispatch leaves it two turns longer (three for the first step, which
\* adds the system turn), so that k such steps leave 1 + 2k turns.
C34_ContextShape ==
    /\ [](\A i \in DOMAIN context : context[i].role = TurnRole(i))
    /\ [][context' # context =>
              \/ context' = <<>>
              \/ context' = strip_last(context)
              \/ /\ Len(context') > Len(context)
                 /\ SubSeq(context', 1, Len(context)) = context]_vars
    /\ []((pc = "step_returned" /\ Dispatched) =>
              Len(context) = IF log.entry = 0 THEN 3 ELSE log.entry + 2)

(***************************************************************************)
(* Properties of the argument scanner and of the structural errors of      *)
(* parse_action.                                                           *)
(***************************************************************************)

\* One character of an argument list read by a splitter that counts the depth of
\* the arrays: a comma outside every string and every array ends the piece, and a
\* character after a backslash is never a delimiter.
piece_char(st, ch) ==
    IF st.escaped THEN [st EXCEPT !.cur = Append(@, ch), !.escaped = FALSE]
    ELSE IF ch = "\\" THEN [st EXCEPT !.cur = Append(@, ch), !.escaped = TRUE]
    ELSE IF ch = "\"" THEN [st EXCEPT !.cur = Append(@, ch), !.quoted = ~st.quoted]
    ELSE IF ch = "[" /\ ~st.quoted
    THEN [st EXCEPT !.cur = Append(@, ch), !.depth = @ + 1]
    ELSE IF ch = "]" /\ ~st.quoted /\ st.depth > 0
    THEN [st EXCEPT !.cur = Append(@, ch), !.depth = @ - 1]
    ELSE IF ch = "," /\ ~st.quoted /\ st.depth = 0
    THEN [st EXCEPT !.cur = <<>>, !.acc = Append(@, st.cur)]
    ELSE [st EXCEPT !.cur = Append(@, ch)]

RECURSIVE pieces_of(_, _)
pieces_of(st, s) == IF s = <<>> THEN st ELSE pieces_of(piece_char(st, Head(s)), Tail(s))

\* The pieces of an argument list between the commas that lie outside every
\* string and every array, whatever the depth of the array.
TopLevelPieces(s) ==
    LET st == pieces_of([depth |-> 0, quoted |-> FALSE, escaped |-> FALSE,
                         cur |-> <<>>, acc |-> <<>>], s)
    IN  Append(st.acc, st.cur)

\* The argument list of a do(...) call: the text between do( and the last ).
Inner(text) == SubSeq(trim(text), Len(Prefix.do_open) + 1, Len(trim(text)) - 1)

\* The key of a piece key=value, and the text of its value.
KeyOf(piece) == trim(SubSeq(piece, 1, find(piece, <<"=">>) - 1))

ValueOf(piece) == trim(SubSeq(piece, find(piece, <<"=">>) + 1, Len(piece)))

\* The text goes through the general scanner: a do(...) call that is not taken by
\* the Type branch of parse_action.
Scanned(text) ==
    /\ starts_with(trim(text), Prefix.do_open)
    /\ ~starts_with(trim(text), Prefix.type)
    /\ ~starts_with(trim(text), Prefix.type_name)

\* C37: in the general scanner a comma ends a pair only outside every string and
\* every array: the record of a call has one field for each piece of the
\* argument list between such commas, named by the piece's key and holding the
\* piece's whole value, and no other field but the discriminator.  A comma in
\* an array at any depth, or in a string (also after an escaped quote), ends no
\* pair.
C37_CommaEndsPair ==
    (ParsedRecord /\ Scanned(input)) =>
        LET pieces == TopLevelPieces(Inner(input))
            record == parse_result[1].value
        IN  /\ DOMAIN record =
                   {Key.metadata} \cup {KeyOf(pieces[i]) : i \in DOMAIN pieces}
            /\ \A i \in DOMAIN pieces :
                   KeyOf(pieces[i]) # Key.metadata =>
                       \E j \in i..Len(pieces) :
                           /\ KeyOf(pieces[j]) = KeyOf(pieces[i])
                           /\ record[KeyOf(pieces[i])] =
                                  parse_value(ValueOf(pieces[j])).value

\* The text starts with do( or finish( and ends with the closing parenthesis.
Closed(text) ==
    /\ starts_with(trim(text), Prefix.do_open) \/ starts_with(trim(text), Prefix.finish_open)
    /\ ends_with(trim(text), Prefix.close)

\* C38: parse_action returns a structural error, and no record, for every text
\* that does not start with do( or finish(, and for every text that starts with
\* do( or finish( and does not end with the matching closing parenthesis.
C38_StructuralErrors ==
    (pc # "parse_action" /\ ~Closed(input)) =>
        /\ pc = "parse_returned"
        /\ parse_result[1].kind = "Err"

(***************************************************************************)
(* Properties of the guard around the model request and the callbacks.     *)
(***************************************************************************)

\* The session s has a guard of the backend selector or waits for one.
HoldsOrWaits(s) == s \in lock.readers \/ \E k \in DOMAIN lock.queue : lock.queue[k] = s

\* C40: a session never holds the read guard while it waits for the model's
\* response or for the confirmation or takeover callback: the guard of the
\* capture is dropped before the model is called, and the confirmation of a Tap
\* runs before the guard of the tap is asked for.  A pending set_device_type is
\* therefore delayed only by device operations and their settling delays: while
\* it waits, a session is inside a device call or the sleep after one.
C40_NoGuardWhileWaiting ==
    /\ \A s \in DOMAIN sessions :
           sessions[s].at \in {"streaming", "confirming"} => ~HoldsOrWaits(s)
    /\ lock.readers \subseteq
           {s \in DOMAIN sessions : sessions[s].at \in {"calling", "settling"}}
    /\ configurer = "waiting" =>
           \E s \in DOMAIN sessions :
               sessions[s].at \in {"calling", "settling"} /\ s \in lock.readers

\* set_device_type has its guard and replaces the selector while one session
\* waits for the model after its capture and the other for the confirmation of
\* its Tap.
C40_Witness ==
    /\ configurer = "locked"
    /\ \E s \in DOMAIN sessions, t \in DOMAIN sessions :
           /\ sessions[s].at = "streaming" /\ sessions[s].op = "capture"
           /\ Len(sessions[s].events) = 4
           /\ sessions[t].at = "confirming" /\ sessions[t].op = "tap"

=============================================================================
